---- MODULE Spec2Model ----
(***************************************************************************)
(* The golden_core engine (crates/golden_core/src/engine/mod.rs): the node *)
(* store and tree, the edit dispatcher, the event bus and the tick         *)
(* scheduler.  The engine's fields are the variables; tick() is unfolded   *)
(* into its call stack because behaviours are callbacks that run in the    *)
(* middle of it and re-enter the dispatcher.                               *)
(***************************************************************************)
EXTENDS Integers, Sequences, FiniteSets, TLC

VARIABLES
    time,           \* Engine.time : EventTime
    nodes,          \* Engine.nodes : NodeId -> Node
    inboxes,        \* Engine.inboxes : NodeId -> Seq(Event)
    subscriptions,  \* Engine.subscriptions : Seq(ListenerSpec)
    pending_edits,  \* Engine.pending_edits : Seq(EditRequest)
    schema,         \* Engine.schema : NodeTypeId -> NodeSchema
    event_log,      \* Engine.event_log : Seq(Event)
    param_values,   \* Engine.param_values : NodeId -> Value
    meta_values,    \* Engine.meta_values : NodeId -> NodeMeta
    uuids,          \* number of Uuid::new_v4() draws so far (each draw is fresh)
    stack,          \* call stack of the running tick(), <<>> between calls
    handed,         \* history: events handed to each behaviour's process hook this tick
    carried,        \* history: the inboxes as they were when the last tick() returned
    pre_values,     \* history: param_values when the running tick() started
    overflow,       \* TRUE once a call recursed deeper than the exploration follows
    emitted,        \* history: number of emit_event calls so far
    menu,           \* the edit requests the hosts of this run may enqueue
    project,        \* the ProjectFile root of the host's last export_project call
    poller,         \* a subscription task: its last_time and the events it has sent
    enqueued,       \* number of enqueue_edit calls so far
    calls,          \* history: the hosts' add_child calls so far, in call order
    updated         \* history: nodes whose behaviour's update hook ran this tick

vars == <<time, nodes, inboxes, subscriptions, pending_edits, schema, event_log,
          param_values, meta_values, uuids, stack, handed, carried, pre_values,
          overflow, emitted, menu, project, poller, enqueued, calls, updated>>

----------------------------------------------------------------------------
\* Bounds of the exploration.

MaxTick == 2
MaxEnqueue == 2
MaxFlushDepth == 9
MaxCreateDepth == 3
MaxNodes == 3
MaxAddChild == 3

\* The polls of a subscription task that the exploration follows.
MaxPoll == 3

\* Program constants.

MAX_STABILIZATION_ROUNDS == 8
MAX_EVENT_LOG == 4096

----------------------------------------------------------------------------
\* Option<T>: None is the empty tuple, Some(x) the one-element tuple.

None == <<>>
Some(x) == <<x>>

Min(a, b) == IF a < b THEN a ELSE b

IsPrefix(s, t) == Len(s) <= Len(t) /\ SubSeq(t, 1, Len(s)) = s

RECURSIVE CountIn(_, _)
CountIn(s, x) ==
    IF s = <<>> THEN 0
    ELSE (IF Head(s) = x THEN 1 ELSE 0) + CountIn(Tail(s), x)

----------------------------------------------------------------------------
\* Values (golden_schema/src/values.rs).  A value is a tag and a payload; the
\* payload is an integer.  Floats are scaled integers plus the one float that
\* is not equal to itself.

NaN == 1000000

IntVal(i) == [tag |-> "Int", v |-> i]
FloatVal(i) == [tag |-> "Float", v |-> i]
BoolVal(i) == [tag |-> "Bool", v |-> i]
TriggerVal == [tag |-> "Trigger", v |-> 0]

\* #[derive(PartialEq)] on Value: variant and payload equal; f64 equality makes
\* NaN differ from itself.
ValueEq(a, b) == a = b /\ ~(a.tag = "Float" /\ a.v = NaN)

NoConstraints == [kind |-> "None"]
IntConstraints(lo, hi, clamp) ==
    [kind |-> "Int", min |-> Some(lo), max |-> Some(hi), clamp |-> clamp, step |-> None]

ParameterData(value, change, constraints) ==
    [kind |-> "Parameter", value |-> value, default |-> Some(value), read_only |-> FALSE,
     update |-> "Immediate", save |-> "Delta", change |-> change,
     constraints |-> constraints]

ContainerData == [kind |-> "Container", allowed_types |-> "Any", folders |-> "Allowed"]
NoData == [kind |-> "None"]
ManagerData(registrations) == [kind |-> "Manager", registrations |-> registrations]

----------------------------------------------------------------------------
\* Event times and events (golden_schema/src/events.rs).

EventTime(t, m, s) == [tick |-> t, micro |-> m, seq |-> s]

\* #[derive(PartialOrd, Ord)] on EventTime: lexicographic on (tick, micro, seq).
TimeLess(a, b) ==
    \/ a.tick < b.tick
    \/ a.tick = b.tick /\ a.micro < b.micro
    \/ a.tick = b.tick /\ a.micro = b.micro /\ a.seq < b.seq

\* Engine::events_since: the logged events stamped later than since, in log order.
events_since(log, since) == SelectSeq(log, LAMBDA event : TimeLess(since, event.time))

\* The task spawned for a Subscribe message, before its first poll.
Subscribed(from) == [from |-> from, last_time |-> from, sent |-> <<>>, polls |-> 0]

ParamChanged(p, v) == [type |-> "ParamChanged", param |-> p, value |-> v]
ChildAdded(p, c) == [type |-> "ChildAdded", parent |-> p, child |-> c]
NodeCreated(n) == [type |-> "NodeCreated", node |-> n]
MetaChanged(n, patch) == [type |-> "MetaChanged", node |-> n, patch |-> patch]

event_targets(kind) ==
    CASE kind.type = "ParamChanged" -> <<kind.param>>
      [] kind.type \in {"ChildAdded", "ChildRemoved", "ChildReordered"} ->
            <<kind.parent, kind.child>>
      [] kind.type = "ChildReplaced" -> <<kind.parent, kind.old, kind.new>>
      [] kind.type = "ChildMoved" -> <<kind.child, kind.old_parent, kind.new_parent>>
      [] kind.type \in {"NodeCreated", "NodeDeleted", "MetaChanged"} -> <<kind.node>>

event_bubble_source(kind) ==
    CASE kind.type = "ParamChanged" -> Some(kind.param)
      [] kind.type \in {"MetaChanged", "NodeCreated", "NodeDeleted"} -> Some(kind.node)
      [] kind.type \in {"ChildAdded", "ChildRemoved", "ChildMoved", "ChildReordered"} ->
            Some(kind.child)
      [] kind.type = "ChildReplaced" -> Some(kind.new)

InSeq(s, x) == \E i \in 1..Len(s) : s[i] = x

\* is_node_in_subtree: follows parent links from node until root is met or the
\* chain ends.  The walk is cut after one step per stored node.
RECURSIVE SubtreeWalk(_, _, _, _)
SubtreeWalk(ns, root, node, fuel) ==
    IF node \notin DOMAIN ns THEN FALSE
    ELSE IF ns[node].parent = None THEN FALSE
    ELSE IF ns[node].parent[1] = root THEN TRUE
    ELSE IF fuel = 0 THEN FALSE
    ELSE SubtreeWalk(ns, root, ns[node].parent[1], fuel - 1)

is_node_in_subtree(ns, root, node) ==
    IF root = node THEN TRUE ELSE SubtreeWalk(ns, root, node, Cardinality(DOMAIN ns))

\* Option::is_none_or(|expected| expected == actual)
IsNoneOr(opt, actual) == opt = None \/ opt[1] = actual

RECURSIVE matches_filter(_, _, _)
matches_filter(filter, event, ns) ==
    LET k == event.kind IN
    CASE filter.type = "Node" -> InSeq(event_targets(k), filter.node)
      [] filter.type = "Param" -> k.type = "ParamChanged" /\ k.param = filter.node
      [] filter.type = "Subtree" ->
            \E i \in 1..Len(event_targets(k)) :
                is_node_in_subtree(ns, filter.root, event_targets(k)[i])
      [] filter.type = "Kind" -> k.type = filter.kind
      [] filter.type = "ParamChanged" ->
            k.type = "ParamChanged" /\ IsNoneOr(filter.param, k.param)
      [] filter.type = "ChildAdded" ->
            k.type = "ChildAdded" /\ IsNoneOr(filter.parent, k.parent)
                /\ IsNoneOr(filter.child, k.child)
      [] filter.type = "NodeCreated" ->
            k.type = "NodeCreated" /\ IsNoneOr(filter.node, k.node)
      [] filter.type = "MetaChanged" ->
            k.type = "MetaChanged" /\ IsNoneOr(filter.node, k.node)
      [] filter.type = "Any" ->
            \E i \in 1..Len(filter.filters) : matches_filter(filter.filters[i], event, ns)
      [] filter.type = "All" ->
            \A i \in 1..Len(filter.filters) : matches_filter(filter.filters[i], event, ns)
      [] OTHER -> FALSE

----------------------------------------------------------------------------
\* The engine as one record, so that operations compose as in the code.

Eng ==
    [time |-> time, nodes |-> nodes, inboxes |-> inboxes,
     subscriptions |-> subscriptions, pending_edits |-> pending_edits,
     schema |-> schema, event_log |-> event_log, param_values |-> param_values,
     meta_values |-> meta_values, uuids |-> uuids, overflow |-> overflow,
     emitted |-> emitted]

Install(e) ==
    /\ time' = e.time
    /\ nodes' = e.nodes
    /\ inboxes' = e.inboxes
    /\ subscriptions' = e.subscriptions
    /\ pending_edits' = e.pending_edits
    /\ schema' = e.schema
    /\ event_log' = e.event_log
    /\ param_values' = e.param_values
    /\ meta_values' = e.meta_values
    /\ uuids' = e.uuids
    /\ overflow' = e.overflow
    /\ emitted' = e.emitted

\* Engine::new creates the root first: it takes the first slot.
RootId == 1

\* HashMap::insert
MapInsert(m, k, v) == IF k \in DOMAIN m THEN [m EXCEPT ![k] = v] ELSE m @@ (k :> v)

\* inboxes.entry(n).or_insert_with(Inbox::new).push(ev)
PushInbox(inb, n, ev) ==
    IF n \in DOMAIN inb THEN [inb EXCEPT ![n] = Append(@, ev)] ELSE inb @@ (n :> <<ev>>)

RECURSIVE PushTargets(_, _, _)
PushTargets(inb, targets, ev) ==
    IF targets = <<>> THEN inb
    ELSE PushTargets(PushInbox(inb, Head(targets), ev), Tail(targets), ev)

deliver_to_own_targets(e, event) ==
    [e EXCEPT !.inboxes = PushTargets(@, event_targets(event.kind), event)]

RECURSIVE PushSubscribers(_, _, _, _)
PushSubscribers(inb, specs, event, ns) ==
    IF specs = <<>> THEN inb
    ELSE PushSubscribers(
            IF matches_filter(Head(specs).filter, event, ns)
            THEN PushInbox(inb, Head(specs).subscriber, event) ELSE inb,
            Tail(specs), event, ns)

\* A variant that pushes to every subscriber, whatever its filter.
RECURSIVE PushAllSubscribers(_, _, _)
PushAllSubscribers(inb, specs, event) ==
    IF specs = <<>> THEN inb
    ELSE PushAllSubscribers(PushInbox(inb, Head(specs).subscriber, event), Tail(specs), event)

deliver_to_all_subscribers(e, event) ==
    [e EXCEPT !.inboxes = PushAllSubscribers(@, e.subscriptions, event)]

deliver_to_subscribers(e, event) ==
    [e EXCEPT !.inboxes = PushSubscribers(@, e.subscriptions, event, e.nodes)]

\* A variant that delivers nothing to the parent.
deliver_bubbled_nowhere(e, event) == e

\* A variant that bubbles two levels: to the parent and to the parent's parent.
deliver_bubbled_twice(e, event) ==
    LET src == event_bubble_source(event.kind) IN
    IF src = None THEN e
    ELSE IF src[1] \notin DOMAIN e.nodes THEN e
    ELSE IF e.nodes[src[1]].parent = None THEN e
    ELSE LET parent == e.nodes[src[1]].parent[1] IN
         IF parent \notin DOMAIN e.nodes THEN e
         ELSE IF e.nodes[parent].parent = None
         THEN [e EXCEPT !.inboxes = PushInbox(@, parent, event)]
         ELSE [e EXCEPT !.inboxes =
                  PushInbox(PushInbox(@, parent, event), e.nodes[parent].parent[1], event)]

deliver_bubbled(e, event) ==
    LET src == event_bubble_source(event.kind) IN
    IF src = None THEN e
    ELSE IF src[1] \notin DOMAIN e.nodes THEN e
    ELSE IF e.nodes[src[1]].parent = None THEN e
    ELSE [e EXCEPT !.inboxes = PushInbox(@, e.nodes[src[1]].parent[1], event)]

deliver_event(e, event) ==
    deliver_bubbled(deliver_to_subscribers(deliver_to_own_targets(e, event), event), event)

\* The event takes the current time, seq is advanced, the log keeps the
\* MAX_EVENT_LOG most recent events, then the event is delivered.  seq and
\* micro are u32; no run explored here comes near 2^32, so `+= 1` and
\* saturating_add(1) are both plain addition.
\* A variant that logs the event in front of the older ones.
emit_event_in_front(e, kind) ==
    LET event == [time |-> e.time, kind |-> kind]
    IN deliver_event([e EXCEPT !.time.seq = @ + 1, !.event_log = <<event>> \o @,
                               !.emitted = @ + 1], event)

\* A variant that discards the new event once the log is full.
emit_event_keeping_oldest(e, kind) ==
    LET event == [time |-> e.time, kind |-> kind]
    IN deliver_event(
          [e EXCEPT !.time.seq = @ + 1,
                    !.event_log = IF Len(@) >= MAX_EVENT_LOG THEN @ ELSE Append(@, event),
                    !.emitted = @ + 1],
          event)

emit_event(e, kind) ==
    LET event == [time |-> e.time, kind |-> kind]
        logged == Append(e.event_log, event)
    IN deliver_event(
          [e EXCEPT !.time.seq = @ + 1,
                    !.event_log = IF Len(logged) > MAX_EVENT_LOG THEN Tail(logged)
                                  ELSE logged,
                    !.emitted = @ + 1],
          event)

\* A variant that leaves the previous last child's next_sibling alone.
add_child_unlinked(e, parent, child) ==
    LET ns == e.nodes
        n1 == IF parent \in DOMAIN ns
              THEN [ns EXCEPT ![parent].first_child =
                                  IF ns[parent].last_child = None THEN Some(child) ELSE @,
                              ![parent].last_child = Some(child)]
              ELSE ns
        n2 == IF child \in DOMAIN n1
              THEN [n1 EXCEPT ![child].parent = Some(parent),
                              ![child].prev_sibling =
                                  IF parent \in DOMAIN ns THEN ns[parent].last_child ELSE None,
                              ![child].next_sibling = None]
              ELSE n1
    IN emit_event([e EXCEPT !.nodes = n2], ChildAdded(parent, child))

add_child(e, parent, child) ==
    LET ns == e.nodes
        has_last == IF parent \in DOMAIN ns THEN ns[parent].last_child # None ELSE FALSE
    IN IF ~has_last
       THEN LET n1 == IF parent \in DOMAIN ns
                      THEN [ns EXCEPT ![parent].first_child = Some(child),
                                      ![parent].last_child = Some(child)]
                      ELSE ns
                n2 == IF child \in DOMAIN n1
                      THEN [n1 EXCEPT ![child].parent = Some(parent),
                                      ![child].prev_sibling = None,
                                      ![child].next_sibling = None]
                      ELSE n1
            IN emit_event([e EXCEPT !.nodes = n2], ChildAdded(parent, child))
       ELSE LET last_child == ns[parent].last_child[1]
                n1 == [ns EXCEPT ![parent].last_child = Some(child)]
                n2 == IF last_child \in DOMAIN n1
                      THEN [n1 EXCEPT ![last_child].next_sibling = Some(child)]
                      ELSE n1
                n3 == IF child \in DOMAIN n2
                      THEN [n2 EXCEPT ![child].parent = Some(parent),
                                      ![child].prev_sibling = Some(last_child),
                                      ![child].next_sibling = None]
                      ELSE n2
            IN emit_event([e EXCEPT !.nodes = n3], ChildAdded(parent, child))

\* A name is the tuple of its dot-separated segments.
DefaultSemantics == [intent |-> None, unit |-> None]
DefaultPresentation == [widget |-> None]

create_meta(label, uuid) ==
    LET short == IF label = <<>> THEN <<"node">> ELSE label IN
    [uuid |-> uuid, decl_id |-> short, short_name |-> short, enabled |-> TRUE,
     label |-> short, description |-> None, tags |-> <<>>,
     semantics |-> DefaultSemantics, presentation |-> DefaultPresentation]

\* SlotMap keys of a store without removals: 1, 2, 3, ... in insertion order.
NextNodeId(ns) == Cardinality(DOMAIN ns) + 1

RECURSIVE SiblingSearch(_, _, _, _)
SiblingSearch(ns, current, decl_id, fuel) ==
    IF current = None THEN None
    ELSE IF current[1] \notin DOMAIN ns THEN None
    ELSE IF ns[current[1]].meta.decl_id = decl_id THEN current
    ELSE IF fuel = 0 THEN None
    ELSE SiblingSearch(ns, ns[current[1]].next_sibling, decl_id, fuel - 1)

\* A variant that never finds the child.
find_no_child_by_decl(ns, parent, decl_id) == None

find_direct_child_by_decl(ns, parent, decl_id) ==
    IF parent \notin DOMAIN ns THEN None
    ELSE SiblingSearch(ns, ns[parent].first_child, decl_id, Cardinality(DOMAIN ns))

RECURSIVE DescendantSearch(_, _, _, _)
DescendantSearch(ns, current, decl_id, fuel) ==
    IF current = None THEN None
    ELSE IF current[1] \notin DOMAIN ns THEN None
    ELSE IF ns[current[1]].meta.decl_id = decl_id THEN current
    ELSE IF fuel = 0 THEN None
    ELSE LET found == DescendantSearch(ns, ns[current[1]].first_child, decl_id, fuel - 1)
         IN IF found # None THEN found
            ELSE DescendantSearch(ns, ns[current[1]].next_sibling, decl_id, fuel - 1)

find_descendant_by_decl(ns, parent, decl_id) ==
    IF parent \notin DOMAIN ns THEN None
    ELSE DescendantSearch(ns, ns[parent].first_child, decl_id, Cardinality(DOMAIN ns))

\* collect_children (golden_net's snapshot): the identifiers met from
\* first_child along next_sibling.  The walk is followed for one step more than
\* there are stored nodes.
RECURSIVE ChildWalk(_, _, _)
ChildWalk(ns, current, fuel) ==
    IF current = None \/ fuel = 0 THEN <<>>
    ELSE <<current[1]>> \o
            ChildWalk(ns,
                      IF current[1] \in DOMAIN ns THEN ns[current[1]].next_sibling ELSE None,
                      fuel - 1)

collect_children(ns, node_id) ==
    IF node_id \in DOMAIN ns
    THEN ChildWalk(ns, ns[node_id].first_child, Cardinality(DOMAIN ns) + 1)
    ELSE <<>>

default_node_data_from_schema(sch) ==
    IF sch.container # None
    THEN [kind |-> "Container", allowed_types |-> sch.container[1].allowed_types,
          folders |-> sch.container[1].folders]
    ELSE NoData

default_node_data_for_type(registry, node_type) ==
    IF node_type \in DOMAIN registry THEN default_node_data_from_schema(registry[node_type])
    ELSE NoData

EmptyMap == [x \in {} |-> 0]

RECURSIVE create_node(_, _, _, _, _, _, _)
RECURSIVE instantiate_declared_children_from_schema(_, _, _, _)
RECURSIVE EnsureFolderSegments(_, _, _, _, _)
RECURSIVE InstantiateFolders(_, _, _, _)
RECURSIVE InstantiateParams(_, _, _, _)
RECURSIVE InstantiateChildren(_, _, _, _)

\* The schema registered in the engine for the new node's type is materialized
\* beneath it.  fuel counts the nested schema materializations still followed.
instantiate_declared_children(e, parent, parent_type, fuel) ==
    IF parent_type \notin DOMAIN e.schema THEN e
    ELSE IF fuel = 0 THEN [e EXCEPT !.overflow = TRUE]
    ELSE instantiate_declared_children_from_schema(e, parent, e.schema[parent_type], fuel - 1)

\* A variant that stores the node without announcing it.
create_node_silent(e, node_type, execution, data, meta, behaviour, fuel) ==
    LET node_id == NextNodeId(e.nodes)
        node == [id |-> node_id, node_type |-> node_type, execution |-> execution,
                 parent |-> None, first_child |-> None, last_child |-> None,
                 prev_sibling |-> None, next_sibling |-> None,
                 meta |-> meta, data |-> data, behaviour |-> behaviour]
        e1 == [e EXCEPT !.nodes = @ @@ (node_id :> node),
                        !.param_values = IF data.kind = "Parameter"
                                         THEN MapInsert(@, node_id, data.value) ELSE @,
                        !.meta_values = MapInsert(@, node_id, meta),
                        !.inboxes = MapInsert(@, node_id, <<>>)]
    IN [e |-> instantiate_declared_children(e1, node_id, node_type, fuel), id |-> node_id]

create_node(e, node_type, execution, data, meta, behaviour, fuel) ==
    LET node_id == NextNodeId(e.nodes)
        node == [id |-> node_id, node_type |-> node_type, execution |-> execution,
                 parent |-> None, first_child |-> None, last_child |-> None,
                 prev_sibling |-> None, next_sibling |-> None,
                 meta |-> meta, data |-> data, behaviour |-> behaviour]
        e1 == [e EXCEPT !.nodes = @ @@ (node_id :> node),
                        !.param_values = IF data.kind = "Parameter"
                                         THEN MapInsert(@, node_id, data.value) ELSE @,
                        !.meta_values = MapInsert(@, node_id, meta),
                        !.inboxes = MapInsert(@, node_id, <<>>)]
        e2 == emit_event(e1, NodeCreated(node_id))
    IN [e |-> instantiate_declared_children(e2, node_id, node_type, fuel), id |-> node_id]

\* `let id = self.create_node(..); self.add_child(parent, id);`
AddCreated(c, parent) == [e |-> add_child(c.e, parent, c.id), id |-> c.id]

\* ensure_folder_path, from segment i of path on; r holds the engine and the
\* current parent.
EnsureFolderSegments(r, path, i, label, fuel) ==
    IF i > Len(path) THEN r
    ELSE LET prefix == SubSeq(path, 1, i)
             segment == <<path[i]>>
             existing == find_direct_child_by_decl(r.e.nodes, r.id, prefix)
         IN IF existing # None
            THEN EnsureFolderSegments([e |-> r.e, id |-> existing[1]], path, i + 1, label,
                                      fuel)
            ELSE LET meta == [create_meta(segment, r.e.uuids + 1) EXCEPT
                                !.decl_id = prefix, !.short_name = segment,
                                !.label = IF prefix = path /\ label # None
                                          THEN label[1] ELSE segment]
                 IN EnsureFolderSegments(
                        AddCreated(create_node([r.e EXCEPT !.uuids = @ + 1], "Folder",
                                               "Passive", ContainerData, meta, None, fuel),
                                   r.id),
                        path, i + 1, label, fuel)

ensure_folder_path(e, parent, path, label, fuel) ==
    EnsureFolderSegments([e |-> e, id |-> parent], path, 1, label, fuel)

\* A variant that does not record the folder.
FolderForgotten(r, folder_nodes, decl_id) == [e |-> r.e, folder_nodes |-> folder_nodes]

\* folder_nodes.insert(folder.decl_id, folder_node)
FolderInserted(r, folder_nodes, decl_id) ==
    [e |-> r.e, folder_nodes |-> MapInsert(folder_nodes, decl_id, r.id)]

\* The loop over schema.folders; f holds the engine and folder_nodes.
InstantiateFolders(f, parent, folders, fuel) ==
    IF folders = <<>> THEN f
    ELSE InstantiateFolders(
            FolderInserted(ensure_folder_path(f.e, parent, Head(folders).decl_id,
                                              Head(folders).label, fuel),
                           f.folder_nodes, Head(folders).decl_id),
            parent, Tail(folders), fuel)

\* The loop over schema.params.
InstantiateParams(f, parent, params, fuel) ==
    IF params = <<>> THEN f.e
    ELSE LET param == Head(params)
             meta == [create_meta(param.decl_id, f.e.uuids + 1) EXCEPT
                        !.decl_id = param.decl_id, !.short_name = param.decl_id,
                        !.label = param.decl_id, !.semantics = param.semantics,
                        !.presentation = param.presentation]
             data == [kind |-> "Parameter", value |-> param.default,
                      default |-> Some(param.default), read_only |-> param.read_only,
                      update |-> param.update, save |-> param.save,
                      change |-> param.change, constraints |-> param.constraints]
             target_parent == IF param.folder = None THEN parent
                              ELSE IF param.folder[1] \in DOMAIN f.folder_nodes
                                   THEN f.folder_nodes[param.folder[1]] ELSE parent
         IN InstantiateParams(
                [e |-> AddCreated(create_node([f.e EXCEPT !.uuids = @ + 1], "Parameter",
                                              "Passive", data, meta, None, fuel),
                                  target_parent).e,
                 folder_nodes |-> f.folder_nodes],
                parent, Tail(params), fuel)

InstantiateChildren(e, parent, children, fuel) ==
    IF children = <<>> THEN e
    ELSE LET child == Head(children) IN
         IF child.node_type \in {"Parameter", "Folder"}
         THEN InstantiateChildren(e, parent, Tail(children), fuel)
         ELSE LET meta == [create_meta(IF child.default_label # None
                                       THEN child.default_label[1] ELSE child.decl_id,
                                       e.uuids + 1) EXCEPT
                             !.decl_id = child.decl_id,
                             !.enabled = child.default_enabled]
                  data == default_node_data_for_type(e.schema, child.node_type)
              IN InstantiateChildren(
                    AddCreated(create_node([e EXCEPT !.uuids = @ + 1], child.node_type,
                                           "Passive", data, meta, None, fuel),
                               parent).e,
                    parent, Tail(children), fuel)

instantiate_declared_children_from_schema(e, parent, sch, fuel) ==
    InstantiateChildren(
        InstantiateParams(
            InstantiateFolders([e |-> e, folder_nodes |-> EmptyMap], parent, sch.folders,
                               fuel),
            parent, sch.params, fuel),
        parent, sch.declared_children, fuel)

\* `if let Some(id) = found { by_decl.insert(decl_id, id); }`
BindFound(by_decl, decl_id, found) ==
    IF found # None THEN MapInsert(by_decl, decl_id, found[1]) ELSE by_decl

RECURSIVE BindDecls(_, _, _, _)
BindDecls(ns, node, decls, by_decl) ==
    IF decls = <<>> THEN by_decl
    ELSE BindDecls(ns, node, Tail(decls),
                   BindFound(by_decl, Head(decls).decl_id,
                             find_descendant_by_decl(ns, node, Head(decls).decl_id)))

build_node_binding_from_schema(ns, node, sch) ==
    [node_id |-> node,
     by_decl |-> BindDecls(ns, node, sch.declared_children,
                    BindDecls(ns, node, sch.params,
                        BindDecls(ns, node, sch.folders, EmptyMap)))]

----------------------------------------------------------------------------
\* Behaviours (graph/node.rs, trait NodeBehaviour).  A behaviour is a callback
\* pair; the ones explored answer with SetParam edits on one target parameter:
\* process answers every ParamChanged event of its inbox (NodeReactive's
\* dispatch_inbox calling on_param_change), update answers every call.  The
\* value written is either the successor of the value the context's read view
\* shows ("next") or a fixed value ("reset", as OscOutput's panic handler).

NumValues == 3

Propagations == {"Immediate", "EndOfTick", "NextTick"}

SetParamRequest(node, value, propagation, origin) ==
    [edit |-> [type |-> "SetParam", node |-> node, value |-> value],
     propagation |-> propagation, origin |-> origin]

PatchMetaRequest(node, patch, propagation, origin) ==
    [edit |-> [type |-> "PatchMeta", node |-> node, patch |-> patch],
     propagation |-> propagation, origin |-> origin]

InstantiateRequest(manager, node_type, label, execution, propagation, origin) ==
    [edit |-> [type |-> "InstantiateChildFromManager", manager |-> manager,
               node_type |-> node_type, label |-> label, execution |-> execution],
     propagation |-> propagation, origin |-> origin]

Behaviour(process, update, target, write) ==
    [process |-> process, update |-> update, target |-> target, write |-> write]

\* ProcessCtx::read_param: a lookup in the view the context was built with.
read_param(ctx, node) ==
    IF node \in DOMAIN ctx.param_values THEN Some(ctx.param_values[node]) ELSE None

NextValue(ctx, node) ==
    LET cur == read_param(ctx, node) IN
    IF cur = None THEN IntVal(0)
    ELSE IF cur[1].tag = "Int" THEN IntVal((cur[1].v + 1) % NumValues)
    ELSE IntVal(0)

WrittenValue(b, ctx) ==
    IF b.write = "reset" THEN IntVal(0) ELSE NextValue(ctx, b.target[1])

ParamChangedCount(events) ==
    Cardinality({i \in 1..Len(events) : events[i].kind.type = "ParamChanged"})

BehaviourProcess(b, ctx) ==
    IF b.process = "None" \/ b.target = None THEN <<>>
    ELSE [i \in 1..ParamChangedCount(ctx.inbox) |->
            SetParamRequest(b.target[1], WrittenValue(b, ctx), b.process, "Internal")]

BehaviourUpdate(b, ctx) ==
    IF b.update = "None" \/ b.target = None THEN <<>>
    ELSE <<SetParamRequest(b.target[1], WrittenValue(b, ctx), b.update, "Internal")>>

\* A manager's behaviour factory: builds the behaviour from the binding.
BuildBehaviour(factory, binding) ==
    Behaviour(factory.process, factory.update,
              IF factory.target \in DOMAIN binding.by_decl
              THEN Some(binding.by_decl[factory.target]) ELSE None,
              factory.write)

----------------------------------------------------------------------------
\* The edit dispatcher.

\* `if changed { self.emit_event(kind); }`
EmitIfChanged(r, kind) == IF r.changed THEN emit_event(r.e, kind) ELSE r.e

\* A variant that reports a change for a node the store does not hold.
set_param_unchecked(e, node, value) ==
    IF node \notin DOMAIN e.nodes THEN [e |-> e, changed |-> TRUE]
    ELSE IF e.nodes[node].data.kind # "Parameter" THEN [e |-> e, changed |-> FALSE]
    ELSE LET param == e.nodes[node].data
             changed == IF param.change = "Always" THEN TRUE
                        ELSE ~ValueEq(param.value, value)
         IN IF changed
            THEN [e |-> [e EXCEPT !.nodes[node].data.value = value,
                                  !.param_values = MapInsert(@, node, value)],
                  changed |-> TRUE]
            ELSE [e |-> e, changed |-> FALSE]

\* A variant that stores the value in the node and leaves the read view alone.
set_param_unmirrored(e, node, value) ==
    IF node \notin DOMAIN e.nodes THEN [e |-> e, changed |-> FALSE]
    ELSE IF e.nodes[node].data.kind # "Parameter" THEN [e |-> e, changed |-> FALSE]
    ELSE LET param == e.nodes[node].data
             changed == IF param.change = "Always" THEN TRUE
                        ELSE ~ValueEq(param.value, value)
         IN IF changed
            THEN [e |-> [e EXCEPT !.nodes[node].data.value = value], changed |-> TRUE]
            ELSE [e |-> e, changed |-> FALSE]

set_param(e, node, value) ==
    IF node \notin DOMAIN e.nodes THEN [e |-> e, changed |-> FALSE]
    ELSE IF e.nodes[node].data.kind # "Parameter" THEN [e |-> e, changed |-> FALSE]
    ELSE LET param == e.nodes[node].data
             changed == IF param.change = "Always" THEN TRUE
                        ELSE ~ValueEq(param.value, value)
         IN IF changed
            THEN [e |-> [e EXCEPT !.nodes[node].data.value = value,
                                  !.param_values = MapInsert(@, node, value)],
                  changed |-> TRUE]
            ELSE [e |-> e, changed |-> FALSE]

\* meta/mod.rs: every field present in the patch is assigned.
\* A variant for which a description holding no value means "leave unchanged".
apply_patch_keeping_description(meta, patch) ==
    [meta EXCEPT
        !.enabled = IF patch.enabled # None THEN patch.enabled[1] ELSE @,
        !.label = IF patch.label # None THEN patch.label[1] ELSE @,
        !.description = IF patch.description # None /\ patch.description[1] # None
                        THEN patch.description[1] ELSE @,
        !.tags = IF patch.tags # None THEN patch.tags[1] ELSE @,
        !.semantics = IF patch.semantics # None THEN patch.semantics[1] ELSE @,
        !.presentation = IF patch.presentation # None THEN patch.presentation[1] ELSE @]

apply_patch(meta, patch) ==
    [meta EXCEPT
        !.enabled = IF patch.enabled # None THEN patch.enabled[1] ELSE @,
        !.label = IF patch.label # None THEN patch.label[1] ELSE @,
        !.description = IF patch.description # None THEN patch.description[1] ELSE @,
        !.tags = IF patch.tags # None THEN patch.tags[1] ELSE @,
        !.semantics = IF patch.semantics # None THEN patch.semantics[1] ELSE @,
        !.presentation = IF patch.presentation # None THEN patch.presentation[1] ELSE @]

\* instantiate_child_from_manager: the manager's schema is materialized
\* beneath the attached child c.
MaterializeManaged(c, manager_schema, fuel) ==
    [e |-> instantiate_declared_children_from_schema(c.e, c.id, manager_schema, fuel),
     id |-> c.id]

\* instantiate_child_from_manager: the binding is built and the behaviour the
\* factory returns for it is installed in the child c.
\* A variant that leaves the child without a behaviour.
InstallNothing(c, registration) == c.e

InstallBehaviour(c, registration) ==
    [c.e EXCEPT !.nodes[c.id].behaviour =
        Some(BuildBehaviour(registration.behaviour_factory,
                build_node_binding_from_schema(c.e.nodes, c.id, registration.schema)))]

instantiate_child_from_manager(e, manager, node_type, label, execution, fuel) ==
    IF manager \notin DOMAIN e.nodes THEN e
    ELSE IF e.nodes[manager].data.kind # "Manager" THEN e
    ELSE IF node_type \notin DOMAIN e.nodes[manager].data.registrations THEN e
    ELSE LET registration == e.nodes[manager].data.registrations[node_type]
             data == default_node_data_from_schema(registration.schema)
         IN InstallBehaviour(
                MaterializeManaged(
                    AddCreated(create_node([e EXCEPT !.uuids = @ + 1], node_type, execution,
                                           data, create_meta(label, e.uuids + 1), None,
                                           fuel),
                               manager),
                    registration.schema, fuel),
                registration)

\* One iteration of apply_edit_requests' match, before the immediate flush.
apply_edit(e, request, fuel) ==
    LET edit == request.edit IN
    CASE edit.type = "SetParam" ->
            EmitIfChanged(set_param(e, edit.node, edit.value),
                          ParamChanged(edit.node, edit.value))
      [] edit.type = "PatchMeta" ->
            IF edit.node \in DOMAIN e.nodes
            THEN LET meta == apply_patch(e.nodes[edit.node].meta, edit.patch) IN
                 emit_event([e EXCEPT !.nodes[edit.node].meta = meta,
                                      !.meta_values = MapInsert(@, edit.node, meta)],
                            MetaChanged(edit.node, edit.patch))
            ELSE e
      [] edit.type = "InstantiateChildFromManager" ->
            instantiate_child_from_manager(e, edit.manager, edit.node_type, edit.label,
                                           edit.execution, fuel)

\* A variant that starts the flush without advancing micro.
flush_keeping_micro(e) == [e EXCEPT !.time.seq = 0]

\* flush_immediate, up to its call of process_pending.
flush_immediate(e) ==
    [e EXCEPT !.time.micro = @ + 1, !.time.seq = 0]

\* A variant that looks at the root's inbox only.
has_pending_root_inbox(inb) == RootId \in DOMAIN inb /\ inb[RootId] # <<>>

\* A variant that never sees a pending inbox.
has_no_pending_inboxes(inb) == FALSE

has_pending_inboxes(inb) == \E n \in DOMAIN inb : inb[n] # <<>>

\* process_pending's ready list; HashMap iteration gives it in any order.
ReadyNodes(inb) == {n \in DOMAIN inb : inb[n] # <<>>}

\* A variant that returns only the events stamped in the running tick.
take_inbox_of_tick(inb, node_id) ==
    IF node_id \in DOMAIN inb
    THEN SelectSeq(inb[node_id], LAMBDA ev : ev.time.tick = time.tick) ELSE <<>>

take_inbox(inb, node_id) == IF node_id \in DOMAIN inb THEN inb[node_id] ELSE <<>>

TakenInboxes(inb, node_id) ==
    IF node_id \in DOMAIN inb THEN [inb EXCEPT ![node_id] = <<>>] ELSE inb

\* apply_edit_requests as a function of the engine, for a batch that holds no
\* Immediate edit.
RECURSIVE ApplyBatch(_, _)
ApplyBatch(e, edits) ==
    IF edits = <<>> THEN e
    ELSE ApplyBatch(apply_edit(e, Head(edits), MaxCreateDepth), Tail(edits))

\* The edits the behaviour of node_id answers its inbox with, in engine e.
ProcessEdits(e, node_id, phase) ==
    IF node_id \notin DOMAIN e.nodes THEN <<>>
    ELSE IF e.nodes[node_id].behaviour = None THEN <<>>
    ELSE BehaviourProcess(e.nodes[node_id].behaviour[1],
                          [phase |-> phase, inbox |-> take_inbox(e.inboxes, node_id),
                           time |-> e.time, param_values |-> e.param_values,
                           meta_values |-> e.meta_values])

\* One iteration of process_pending's loop as a function of the engine, for a
\* node whose behaviour produces no Immediate edit.
VisitNode(e, node_id, phase) ==
    ApplyBatch([e EXCEPT !.inboxes = TakenInboxes(@, node_id)],
               ProcessEdits(e, node_id, phase))

----------------------------------------------------------------------------
\* tick() and its callees as a call stack.  A frame holds the callee's name and
\* its locals; the bottom frame is tick() itself.

Top == stack[Len(stack)]
Pop == SubSeq(stack, 1, Len(stack) - 1)
ReplaceTop(frame) == Append(Pop, frame)

TickFrame(pc, round, external) ==
    [fn |-> "tick", pc |-> pc, round |-> round, external |-> external]
ApplyFrame(edits) == [fn |-> "apply_edit_requests", edits |-> edits]
\* The read views of engine e, as a pass finds them when it starts.
ReadViews(e) == [param_values |-> e.param_values, meta_values |-> e.meta_values]

\* `started` is history: the read views when the pass started.
ProcessFrame(phase, ready, started) ==
    [fn |-> "process_pending", phase |-> phase, ready |-> ready, started |-> started]
UpdateFrame(node_ids, started) ==
    [fn |-> "run_update_pass", node_ids |-> node_ids, started |-> started]

\* A variant that hands the batch over last edit first.
CallReversed(frames, edits) ==
    IF edits = <<>> THEN frames
    ELSE Append(frames, ApplyFrame([i \in 1..Len(edits) |-> edits[Len(edits) + 1 - i]]))

\* A callee is entered only when it has something to do.
Call(frames, edits) == IF edits = <<>> THEN frames ELSE Append(frames, ApplyFrame(edits))

FlushDepth ==
    Cardinality({i \in 1..Len(stack) :
        stack[i].fn = "process_pending" /\ stack[i].phase = "FlushImmediate"})

ProcessCtx(phase, inbox) ==
    [phase |-> phase, inbox |-> inbox, time |-> time,
     param_values |-> param_values, meta_values |-> meta_values]

HistoryUnchanged ==
    UNCHANGED <<handed, carried, pre_values, menu, project, poller, enqueued, calls, updated>>

\* enqueue_edit, called by a host between two ticks; the exploration follows
\* the calls made before tick number last.
EnqueueEditBefore(last) ==
    /\ stack = <<>>
    /\ enqueued < MaxEnqueue
    /\ time.tick < last
    /\ \E request \in menu : pending_edits' = Append(pending_edits, request)
    /\ enqueued' = enqueued + 1
    /\ UNCHANGED <<time, nodes, inboxes, subscriptions, schema, event_log, param_values,
                   meta_values, uuids, stack, handed, carried, pre_values, overflow,
                   emitted, menu, project, poller, calls, updated>>

EnqueueEdit == EnqueueEditBefore(MaxTick)

\* tick(), steps 1 and 2: advance time, take the external queue and apply it;
\* the exploration follows the ticks up to number last.
TickUpTo(last) ==
    /\ stack = <<>>
    /\ time.tick < last
    /\ time' = EventTime(time.tick + 1, 0, 0)
    /\ pending_edits' = <<>>
    /\ stack' = Call(<<TickFrame("update", 0, pending_edits)>>, pending_edits)
    /\ handed' = EmptyMap
    /\ pre_values' = param_values
    /\ updated' = {}
    /\ UNCHANGED <<nodes, inboxes, subscriptions, schema, event_log, param_values,
                   meta_values, uuids, carried, overflow, emitted, menu, project, poller, enqueued, calls>>

Tick == TickUpTo(MaxTick)

\* A variant that never flushes.
AfterEditUnflushed(e1, propagation, rest) == Install(e1) /\ stack' = rest

\* One iteration of apply_edit_requests: the edit is applied and, when its
\* propagation is Immediate, flush_immediate enters process_pending.
AfterEdit(e1, propagation, rest) ==
    IF propagation = "Immediate"
    THEN /\ FlushDepth < MaxFlushDepth
         /\ Install(flush_immediate(e1))
         /\ stack' = Append(rest, ProcessFrame("FlushImmediate", ReadyNodes(e1.inboxes),
                                            ReadViews(e1)))
    ELSE /\ Install(e1)
         /\ stack' = rest

ApplyEditRequest ==
    /\ stack # <<>>
    /\ Top.fn = "apply_edit_requests"
    /\ Top.edits # <<>>
    /\ AfterEdit(apply_edit(Eng, Head(Top.edits), MaxCreateDepth),
                 Head(Top.edits).propagation,
                 ReplaceTop([Top EXCEPT !.edits = Tail(@)]))
    /\ HistoryUnchanged

ApplyEditRequestsReturn ==
    /\ stack # <<>>
    /\ Top.fn = "apply_edit_requests"
    /\ Top.edits = <<>>
    /\ stack' = Pop
    /\ UNCHANGED <<time, nodes, inboxes, subscriptions, pending_edits, schema, event_log,
                   param_values, meta_values, uuids, overflow, emitted>>
    /\ HistoryUnchanged

\* One iteration of process_pending: the node's inbox is taken, its behaviour
\* (if any) processes it, and the edits it produced are applied.
ProcessNode ==
    /\ stack # <<>>
    /\ Top.fn = "process_pending"
    /\ \E node_id \in Top.ready :
        LET inbox_events == take_inbox(inboxes, node_id)
            ctx == ProcessCtx(Top.phase, inbox_events)
            behaves == IF node_id \in DOMAIN nodes THEN nodes[node_id].behaviour # None
                       ELSE FALSE
            edits == IF behaves THEN BehaviourProcess(nodes[node_id].behaviour[1], ctx)
                     ELSE <<>>
        IN /\ inboxes' = TakenInboxes(inboxes, node_id)
           /\ stack' = Call(ReplaceTop([Top EXCEPT !.ready = @ \ {node_id}]), edits)
           /\ handed' = IF behaves
                        THEN MapInsert(handed, node_id,
                                (IF node_id \in DOMAIN handed THEN handed[node_id] ELSE <<>>)
                                    \o inbox_events)
                        ELSE handed
    /\ UNCHANGED <<time, nodes, subscriptions, pending_edits, schema, event_log,
                   param_values, meta_values, uuids, carried, pre_values, overflow,
                   emitted, menu, project, poller, enqueued, calls, updated>>

ProcessPendingReturn ==
    /\ stack # <<>>
    /\ Top.fn = "process_pending"
    /\ Top.ready = {}
    /\ stack' = Pop
    /\ UNCHANGED <<time, nodes, inboxes, subscriptions, pending_edits, schema, event_log,
                   param_values, meta_values, uuids, overflow, emitted>>
    /\ HistoryUnchanged

\* A variant that lists the slots from the last to the first.
NodeKeysDescending(ns) ==
    [i \in 1..Cardinality(DOMAIN ns) |-> Cardinality(DOMAIN ns) + 1 - i]

\* NodeStore::keys: the slots in index order.
NodeKeys(ns) == [i \in 1..Cardinality(DOMAIN ns) |-> i]

\* tick(), step 3: run_update_pass collects the node ids.
RunUpdatePass ==
    /\ stack # <<>>
    /\ Top.fn = "tick"
    /\ Top.pc = "update"
    /\ stack' = Append(ReplaceTop([Top EXCEPT !.pc = "drain"]),
                       UpdateFrame(NodeKeys(nodes), ReadViews(Eng)))
    /\ UNCHANGED <<time, nodes, inboxes, subscriptions, pending_edits, schema, event_log,
                   param_values, meta_values, uuids, overflow, emitted>>
    /\ HistoryUnchanged

\* One iteration of run_update_pass.
UpdateNode ==
    /\ stack # <<>>
    /\ Top.fn = "run_update_pass"
    /\ Top.node_ids # <<>>
    /\ LET node_id == Head(Top.node_ids)
           should_update == IF node_id \in DOMAIN nodes
                            THEN nodes[node_id].execution = "Continuous" ELSE FALSE
           ctx == ProcessCtx("EngineTick", <<>>)
           edits == IF should_update /\ nodes[node_id].behaviour # None
                    THEN BehaviourUpdate(nodes[node_id].behaviour[1], ctx) ELSE <<>>
       IN /\ stack' = Call(ReplaceTop([Top EXCEPT !.node_ids = Tail(@)]), edits)
          /\ updated' = IF should_update /\ nodes[node_id].behaviour # None
                        THEN updated \cup {node_id} ELSE updated
    /\ UNCHANGED <<time, nodes, inboxes, subscriptions, pending_edits, schema, event_log,
                   param_values, meta_values, uuids, overflow, emitted, handed, carried, pre_values,
                   menu, project, poller, enqueued, calls>>

RunUpdatePassReturn ==
    /\ stack # <<>>
    /\ Top.fn = "run_update_pass"
    /\ Top.node_ids = <<>>
    /\ stack' = Pop
    /\ UNCHANGED <<time, nodes, inboxes, subscriptions, pending_edits, schema, event_log,
                   param_values, meta_values, uuids, overflow, emitted>>
    /\ HistoryUnchanged

\* tick(), step 4: the initial reactive drain.
ReactiveDrain ==
    /\ stack # <<>>
    /\ Top.fn = "tick"
    /\ Top.pc = "drain"
    /\ stack' = Append(ReplaceTop([Top EXCEPT !.pc = "stabilize"]),
                       ProcessFrame("EngineTick", ReadyNodes(inboxes), ReadViews(Eng)))
    /\ UNCHANGED <<time, nodes, inboxes, subscriptions, pending_edits, schema, event_log,
                   param_values, meta_values, uuids, overflow, emitted>>
    /\ HistoryUnchanged

\* The time a stabilization round starts with.
StabilizationTime(t, round) == [t EXCEPT !.micro = round, !.seq = 0]

\* tick(), step 5: one pass of the loop `for round in 1..=MAX_STABILIZATION_ROUNDS`
\* that finds inboxes pending.
StabilizationRound ==
    /\ stack # <<>>
    /\ Top.fn = "tick"
    /\ Top.pc = "stabilize"
    /\ Top.round < MAX_STABILIZATION_ROUNDS
    /\ has_pending_inboxes(inboxes)
    /\ time' = StabilizationTime(time, Top.round + 1)
    /\ stack' = Append(ReplaceTop([Top EXCEPT !.round = @ + 1]),
                       ProcessFrame("EndOfTickStabilization", ReadyNodes(inboxes),
                                    ReadViews(Eng)))
    /\ UNCHANGED <<nodes, inboxes, subscriptions, pending_edits, schema, event_log,
                   param_values, meta_values, uuids, overflow, emitted>>
    /\ HistoryUnchanged

\* The loop ends: the range is exhausted or no inbox is pending.
StabilizationEnd ==
    /\ stack # <<>>
    /\ Top.fn = "tick"
    /\ Top.pc = "stabilize"
    /\ Top.round = MAX_STABILIZATION_ROUNDS \/ ~has_pending_inboxes(inboxes)
    /\ stack' = ReplaceTop([Top EXCEPT !.pc = "done"])
    /\ UNCHANGED <<time, nodes, inboxes, subscriptions, pending_edits, schema, event_log,
                   param_values, meta_values, uuids, overflow, emitted>>
    /\ HistoryUnchanged

TickReturn ==
    /\ stack # <<>>
    /\ Top.fn = "tick"
    /\ Top.pc = "done"
    /\ stack' = <<>>
    /\ carried' = inboxes
    /\ UNCHANGED <<time, nodes, inboxes, subscriptions, pending_edits, schema, event_log,
                   param_values, meta_values, uuids, handed, pre_values, overflow,
                   emitted, menu, project, poller, enqueued, calls, updated>>

Next ==
    \/ EnqueueEdit
    \/ Tick
    \/ ApplyEditRequest
    \/ ApplyEditRequestsReturn
    \/ ProcessNode
    \/ ProcessPendingReturn
    \/ RunUpdatePass
    \/ UpdateNode
    \/ RunUpdatePassReturn
    \/ ReactiveDrain
    \/ StabilizationRound
    \/ StabilizationEnd
    \/ TickReturn

----------------------------------------------------------------------------
\* Export (persistence/save.rs).  An ExportNode is [node_id, record, children];
\* a record is Full or Delta.  ExportContext's sets are read only after the
\* walk: emitted holds the uuids of the records of the tree, referenced the
\* uuids the exported parameters refer to.

ReferenceVal(uuid) == [tag |-> "Reference", v |-> uuid]

is_declared_child(sch, decl_id, node_type) ==
    \E i \in 1..Len(sch.declared_children) :
        /\ sch.declared_children[i].decl_id = decl_id
        /\ sch.declared_children[i].node_type = node_type

is_potential_slot(sch, decl_id, node_type) ==
    \E i \in 1..Len(sch.potential_slots) :
        /\ sch.potential_slots[i].decl_id = decl_id
        /\ InSeq(sch.potential_slots[i].allowed_types, node_type)

slot_kind(e, parent_type, node) ==
    IF parent_type = None THEN "Dynamic"
    ELSE IF parent_type[1] \notin DOMAIN e.schema THEN "Dynamic"
    ELSE IF is_potential_slot(e.schema[parent_type[1]], node.meta.decl_id, node.node_type)
    THEN "Potential"
    ELSE IF is_declared_child(e.schema[parent_type[1]], node.meta.decl_id, node.node_type)
    THEN "Declared"
    ELSE "Dynamic"

find_declared_child(sch, node) ==
    LET found == {i \in 1..Len(sch.declared_children) :
                    /\ sch.declared_children[i].decl_id = node.meta.decl_id
                    /\ sch.declared_children[i].node_type = node.node_type}
    IN IF found = {} THEN None
       ELSE Some(sch.declared_children[CHOOSE i \in found : \A j \in found : i <= j])

meta_patch_from_node(node, declared) ==
    LET default_label == IF declared # None /\ declared[1].default_label # None
                         THEN declared[1].default_label[1] ELSE node.meta.decl_id
        default_enabled == IF declared # None THEN declared[1].default_enabled ELSE TRUE
        patch == [enabled |-> IF node.meta.enabled # default_enabled
                              THEN Some(node.meta.enabled) ELSE None,
                  label |-> IF node.meta.label # default_label
                            THEN Some(node.meta.label) ELSE None,
                  description |-> IF node.meta.description # None
                                  THEN Some(node.meta.description) ELSE None,
                  tags |-> IF node.meta.tags # <<>> THEN Some(node.meta.tags) ELSE None,
                  semantics |-> IF node.meta.semantics # DefaultSemantics
                                THEN Some(node.meta.semantics) ELSE None,
                  presentation |-> IF node.meta.presentation # DefaultPresentation
                                   THEN Some(node.meta.presentation) ELSE None]
    IN IF \A field \in DOMAIN patch : patch[field] = None THEN None ELSE Some(patch)

node_data_to_dto(data) ==
    CASE data.kind = "None" -> [kind |-> "None", container |-> None, parameter |-> None]
      [] data.kind = "Container" ->
            [kind |-> "Container",
             container |-> Some([allowed_types |-> IF data.allowed_types = "Any" THEN <<>>
                                                   ELSE data.allowed_types,
                                 folders_allowed |-> data.folders = "Allowed"]),
             parameter |-> None]
      [] data.kind = "Parameter" ->
            [kind |-> "Parameter", container |-> None, parameter |-> Some(data)]
      [] OTHER -> [kind |-> "Custom", container |-> None, parameter |-> None]

\* collect_references: the uuid a Reference parameter refers to.
collect_references(node) ==
    IF node.data.kind = "Parameter" /\ node.data.value.tag = "Reference"
    THEN {node.data.value.v} ELSE {}

RECURSIVE export_node(_, _, _, _)
RECURSIVE ExportSiblings(_, _, _, _)

\* collect_children of save.rs: the records of the children from `current` on.
\* fuel bounds the links followed.
ExportSiblings(e, current, parent_type, fuel) ==
    IF current = None \/ fuel = 0 THEN <<>>
    ELSE LET exported == export_node(e, current[1], parent_type, fuel - 1)
             next == IF current[1] \in DOMAIN e.nodes
                     THEN e.nodes[current[1]].next_sibling ELSE None
         IN (IF exported = None THEN <<>> ELSE exported)
                \o ExportSiblings(e, next, parent_type, fuel - 1)

export_full_record(e, node_id, decl_id, fuel) ==
    IF node_id \notin DOMAIN e.nodes THEN None
    ELSE LET node == e.nodes[node_id] IN
         Some([node_id |-> node_id,
               record |-> [kind |-> "Full", decl_id |-> decl_id,
                           node_type |-> node.node_type, uuid |-> node.meta.uuid,
                           meta |-> node.meta, data |-> node_data_to_dto(node.data)],
               children |-> ExportSiblings(e, node.first_child, Some(node.node_type), fuel)])

\* `if value.is_none() && meta.is_none() && children.is_empty() { return None; }`
DeltaUnlessEmpty(node, value, meta, children) ==
    IF value = None /\ meta = None /\ children = <<>> THEN None
    ELSE Some([node_id |-> node.id,
               record |-> [kind |-> "Delta", decl_id |-> node.meta.decl_id,
                           uuid |-> Some(node.meta.uuid), meta |-> meta, value |-> value],
               children |-> children])

export_delta_record(e, node_id, parent_type, fuel) ==
    IF node_id \notin DOMAIN e.nodes THEN None
    ELSE LET node == e.nodes[node_id]
             value == IF node.data.kind # "Parameter" THEN None
                      ELSE IF node.data.default # None
                              /\ ValueEq(node.data.default[1], node.data.value)
                      THEN None ELSE Some(node.data.value)
             declared == IF parent_type # None /\ parent_type[1] \in DOMAIN e.schema
                         THEN find_declared_child(e.schema[parent_type[1]], node) ELSE None
         IN DeltaUnlessEmpty(node, value, meta_patch_from_node(node, declared),
                             ExportSiblings(e, node.first_child, Some(node.node_type), fuel))

export_node(e, node_id, parent_type, fuel) ==
    IF node_id \notin DOMAIN e.nodes THEN None
    ELSE LET slot == slot_kind(e, parent_type, e.nodes[node_id]) IN
         CASE slot = "Dynamic" -> export_full_record(e, node_id, None, fuel)
           [] slot = "Potential" ->
                export_full_record(e, node_id, Some(e.nodes[node_id].meta.decl_id), fuel)
           [] slot = "Declared" -> export_delta_record(e, node_id, parent_type, fuel)

missing_record(e) ==
    [node_id |-> 0,
     record |-> [kind |-> "Full", decl_id |-> None, node_type |-> "Missing",
                 uuid |-> e.uuids + 1, meta |-> create_meta(<<"missing">>, e.uuids + 2),
                 data |-> [kind |-> "None", container |-> None, parameter |-> None]],
     children |-> <<>>]

RootOrMissing(e, exported) == IF exported = None THEN missing_record(e) ELSE exported[1]

export_root_node(e, node_id) ==
    RootOrMissing(e, export_full_record(e, node_id, None, Cardinality(DOMAIN e.nodes) + 1))

\* ctx.emitted and ctx.referenced after the walk that built export node x.
RECURSIVE EmittedIn(_)
EmittedIn(x) ==
    {IF x.record.kind = "Full" THEN x.record.uuid ELSE x.record.uuid[1]}
        \cup UNION {EmittedIn(x.children[i]) : i \in 1..Len(x.children)}

RECURSIVE ReferencedIn(_, _)
ReferencedIn(e, x) ==
    (IF x.node_id \in DOMAIN e.nodes THEN collect_references(e.nodes[x.node_id]) ELSE {})
        \cup UNION {ReferencedIn(e, x.children[i]) : i \in 1..Len(x.children)}

child_has_decl_id(children, record) ==
    \E i \in 1..Len(children) :
        IF children[i].record.kind = "Full"
        THEN children[i].record.decl_id = Some(record.decl_id)
        ELSE children[i].record.decl_id = record.decl_id

\* insert_binding_record: [node |-> the export node afterwards, found |-> the
\* returned flag].
RECURSIVE insert_binding_record(_, _, _)
RECURSIVE InsertInChildren(_, _, _, _)
InsertInChildren(x, i, parent_id, binding) ==
    IF i > Len(x.children) THEN [node |-> x, found |-> FALSE]
    ELSE LET r == insert_binding_record(x.children[i], parent_id, binding) IN
         IF r.found THEN [node |-> [x EXCEPT !.children[i] = r.node], found |-> TRUE]
         ELSE InsertInChildren(x, i + 1, parent_id, binding)

insert_binding_record(root, parent_id, binding) ==
    IF root.node_id = parent_id
    THEN [node |-> IF child_has_decl_id(root.children, binding) THEN root
                   ELSE [root EXCEPT !.children =
                            Append(@, [node_id |-> 0, record |-> binding,
                                       children |-> <<>>])],
          found |-> TRUE]
    ELSE InsertInChildren(root, 1, parent_id, binding)

\* ExportContext::new's uuid_map.
NodeOfUuid(e, uuid) ==
    LET ids == {n \in DOMAIN e.nodes : e.nodes[n].meta.uuid = uuid}
    IN IF ids = {} THEN None ELSE Some(CHOOSE n \in ids : TRUE)

\* apply_reference_closure's loop body for one referenced uuid.
ClosureStep(e, root, emitted_uuids, uuid) ==
    LET node_id == NodeOfUuid(e, uuid) IN
    IF uuid \in emitted_uuids THEN root
    ELSE IF node_id = None THEN root
    ELSE IF e.nodes[node_id[1]].parent = None THEN root
    ELSE IF e.nodes[node_id[1]].parent[1] \notin DOMAIN e.nodes THEN root
    ELSE IF e.nodes[e.nodes[node_id[1]].parent[1]].node_type \notin DOMAIN e.schema THEN root
    ELSE IF ~is_declared_child(e.schema[e.nodes[e.nodes[node_id[1]].parent[1]].node_type],
                               e.nodes[node_id[1]].meta.decl_id,
                               e.nodes[node_id[1]].node_type)
    THEN root
    ELSE insert_binding_record(
            root, e.nodes[node_id[1]].parent[1],
            [kind |-> "Delta", decl_id |-> e.nodes[node_id[1]].meta.decl_id,
             uuid |-> Some(uuid), meta |-> None, value |-> None]).node

\* apply_reference_closure; referenced is the HashSet in its iteration order.
RECURSIVE apply_reference_closure(_, _, _, _)
apply_reference_closure(e, root, emitted_uuids, referenced) ==
    IF referenced = <<>> THEN root
    ELSE apply_reference_closure(e, ClosureStep(e, root, emitted_uuids, Head(referenced)),
                                 emitted_uuids, Tail(referenced))

\* ExportNode::into_record
RECURSIVE into_record(_)
into_record(x) ==
    [record |-> x.record,
     children |-> [i \in 1..Len(x.children) |-> into_record(x.children[i])]]

\* The orders a HashSet may be iterated in.
Orders(set) ==
    {order \in [1..Cardinality(set) -> set] :
        \A i, j \in 1..Cardinality(set) : i # j => order[i] # order[j]}

Closed(e, root, referenced) ==
    into_record(apply_reference_closure(e, root, EmittedIn(root), referenced))

\* export_project: every root record the call may return.
export_project(e, root) ==
    {Closed(e, export_root_node(e, root), referenced) :
        referenced \in Orders(ReferencedIn(e, export_root_node(e, root)))}

----------------------------------------------------------------------------
\* Construction.

\* Engine::new: the empty engine, then the root container.
EngineNew ==
    LET e0 == [time |-> EventTime(0, 0, 0), nodes |-> EmptyMap, inboxes |-> EmptyMap,
               subscriptions |-> <<>>, pending_edits |-> <<>>, schema |-> EmptyMap,
               event_log |-> <<>>, param_values |-> EmptyMap, meta_values |-> EmptyMap,
               uuids |-> 1, overflow |-> FALSE, emitted |-> 0]
    IN create_node(e0, "Root", "Passive", ContainerData, create_meta(<<"root">>, 1), None,
                   MaxCreateDepth).e

create_parameter_node(e, label, value) ==
    create_node([e EXCEPT !.uuids = @ + 1], "Parameter", "Passive",
                ParameterData(value, "ValueChange", NoConstraints),
                create_meta(label, e.uuids + 1), None, MaxCreateDepth)

create_manager_node(e, node_type, label, manager_data) ==
    create_node([e EXCEPT !.uuids = @ + 1], node_type, "Reactive", manager_data,
                create_meta(label, e.uuids + 1), None, MaxCreateDepth)

register_schema(e, node_type, sch) ==
    [e EXCEPT !.schema = MapInsert(@, node_type, sch)]

\* create_node for a container that carries a behaviour (golden_app's
\* create_container).
create_behaviour_container(e, node_type, label, execution, behaviour) ==
    create_node([e EXCEPT !.uuids = @ + 1], node_type, execution, ContainerData,
                create_meta(label, e.uuids + 1), behaviour, MaxCreateDepth)

InitFrom(e, requests) ==
    /\ time = e.time
    /\ nodes = e.nodes
    /\ inboxes = e.inboxes
    /\ subscriptions = e.subscriptions
    /\ pending_edits = e.pending_edits
    /\ schema = e.schema
    /\ event_log = e.event_log
    /\ param_values = e.param_values
    /\ meta_values = e.meta_values
    /\ uuids = e.uuids
    /\ overflow = e.overflow
    /\ emitted = e.emitted
    /\ stack = <<>>
    /\ handed = EmptyMap
    /\ carried = e.inboxes
    /\ pre_values = e.param_values
    /\ menu = requests
    /\ project = None
    /\ poller = Subscribed(e.time)
    /\ enqueued = 0
    /\ calls = <<>>
    /\ updated = {}

\* The scheduling scenario: root > outputs > p, where outputs carries a
\* behaviour that writes p.
BehaviourConfigs ==
    {Behaviour("None", up, Some(2), "next") : up \in {"None"} \cup Propagations}
        \cup {Behaviour(pr, "None", Some(2), "next") : pr \in {"EndOfTick", "NextTick"}}
        \cup {Behaviour("Immediate", "None", Some(2), "reset")}

SchedEngine(b) ==
    add_child(
        AddCreated(create_behaviour_container(
                      create_parameter_node(EngineNew, <<"p">>, IntVal(0)).e,
                      "Outputs", <<"outputs">>,
                      IF b.update = "None" THEN "Reactive" ELSE "Continuous", Some(b)),
                   RootId).e,
        3, 2)

SchedMenu ==
    {SetParamRequest(2, IntVal(v), pr, "UI") : v \in 1..2, pr \in Propagations}

Init == \E b \in BehaviourConfigs : InitFrom(SchedEngine(b), SchedMenu)

Spec == Init /\ [][Next]_vars

\* The steps of a running tick(): the call runs to its end once started.
Running ==
    \/ ApplyEditRequest
    \/ ApplyEditRequestsReturn
    \/ ProcessNode
    \/ ProcessPendingReturn
    \/ RunUpdatePass
    \/ UpdateNode
    \/ RunUpdatePassReturn
    \/ ReactiveDrain
    \/ StabilizationRound
    \/ StabilizationEnd
    \/ TickReturn

\* The host loop keeps calling tick().  The behaviours answer a change of p
\* with an Immediate edit that settles, or with an EndOfTick edit that changes
\* p again in every round.
LiveConfigs ==
    {Behaviour("Immediate", "None", Some(2), "reset"),
     Behaviour("EndOfTick", "None", Some(2), "next")}

LiveMenu ==
    {SetParamRequest(2, IntVal(1), "Immediate", "UI"),
     SetParamRequest(2, IntVal(2), "EndOfTick", "UI")}

InitLive == \E b \in LiveConfigs : InitFrom(SchedEngine(b), LiveMenu)

SpecLive == InitLive /\ [][Next]_vars /\ WF_vars(Tick) /\ WF_vars(Running)

\* One turn of the subscription task's loop, taken while no tick() holds the
\* engine lock: read the events after last_time, move last_time to the last
\* one's time, send the batch unless it is empty.
Poll ==
    /\ stack = <<>>
    /\ poller.polls < MaxPoll
    /\ LET events == events_since(event_log, poller.last_time)
           last_time == IF events = <<>> THEN poller.last_time
                        ELSE events[Len(events)].time
       IN  poller' = [poller EXCEPT !.last_time = last_time,
                                    !.sent = poller.sent \o events,
                                    !.polls = poller.polls + 1]
    /\ UNCHANGED <<time, nodes, inboxes, subscriptions, pending_edits, schema, event_log,
                   param_values, meta_values, uuids, stack, handed, carried, pre_values,
                   overflow, emitted, menu, project, enqueued, calls, updated>>

NextPoll == Next \/ Poll

\* A container labelled label with the behaviour b, under the root, holding a
\* new parameter labelled param.
Stage(e, label, param, b) ==
    LET made == create_parameter_node(e, <<param>>, IntVal(0))
        held == AddCreated(create_behaviour_container(made.e, "Stage", <<label>>,
                                                      "Reactive", Some(b)), RootId)
    IN  add_child(held.e, held.id, made.id)

\* root > a > p, root > b > q, root > c > r, root > s: a answers a change of p
\* by writing q, b a change of q by writing r, c a change of r by writing s.
ChainEngine ==
    AddCreated(
        create_parameter_node(
            Stage(Stage(Stage(EngineNew, "a", "p", Behaviour("EndOfTick", "None", Some(4), "next")),
                        "b", "q", Behaviour("EndOfTick", "None", Some(6), "next")),
                  "c", "r", Behaviour("EndOfTick", "None", Some(8), "next")),
            <<"s">>, IntVal(0)),
        RootId).e

ChainMenu == {SetParamRequest(2, IntVal(1), "Immediate", "Network")}

InitPoll == InitLive \/ InitFrom(ChainEngine, ChainMenu)

\* The host loop's and the SetParam handlers' ticks, interleaved with the polls
\* of one subscription task.
SpecPoll == InitPoll /\ [][NextPoll]_vars

\* The editing scenario: root > rack > (level, gain) and root > outputs, where
\* rack is of a type whose registered schema declares the two parameters and
\* carries a behaviour, and outputs is a manager that can instantiate "Osc".
ParamDecl(decl_id, default, change, constraints) ==
    [decl_id |-> decl_id, default |-> default, constraints |-> constraints,
     read_only |-> FALSE, update |-> "EndOfTick", change |-> change, save |-> "Delta",
     semantics |-> DefaultSemantics, presentation |-> DefaultPresentation,
     folder |-> None]

NodeSchema(params) ==
    [declared_children |-> <<>>, potential_slots |-> <<>>, params |-> params,
     folders |-> <<>>, container |-> None]

RackSchema ==
    NodeSchema(<<ParamDecl(<<"level">>, IntVal(0), "ValueChange", IntConstraints(0, 2, TRUE)),
                 ParamDecl(<<"gain">>, FloatVal(0), "ValueChange", NoConstraints)>>)

OscSchema == NodeSchema(<<ParamDecl(<<"drive">>, IntVal(0), "Always", NoConstraints)>>)

OscRegistration ==
    [schema |-> OscSchema,
     behaviour_factory |-> Behaviour("None", "None", <<"drive">>, "next")]

EditConfigs ==
    {Behaviour(pr, "None", Some(3), "next") : pr \in {"None", "EndOfTick"}}

EditEngine(b) ==
    AddCreated(
        create_manager_node(
            AddCreated(create_behaviour_container(
                          register_schema(EngineNew, "Rack", RackSchema),
                          "Rack", <<"rack">>, "Reactive", Some(b)),
                       RootId).e,
            "Outputs", <<"outputs">>, ManagerData("Osc" :> OscRegistration)),
        RootId).e

EmptyPatch ==
    [enabled |-> None, label |-> None, description |-> None, tags |-> None,
     semantics |-> None, presentation |-> None]

\* Requests whose target exists and has the kind the edit needs, and requests
\* whose target does not (node 9 never exists; node 2 is the rack, a container).
EditMenu ==
    {SetParamRequest(3, IntVal(1), "EndOfTick", "UI"),
     SetParamRequest(3, IntVal(5), "EndOfTick", "UI"),
     SetParamRequest(4, FloatVal(NaN), "EndOfTick", "UI"),
     SetParamRequest(9, IntVal(1), "EndOfTick", "UI"),
     SetParamRequest(2, IntVal(1), "Immediate", "UI"),
     PatchMetaRequest(3, [EmptyPatch EXCEPT !.label = Some(<<"Level">>)], "EndOfTick", "UI"),
     PatchMetaRequest(9, [EmptyPatch EXCEPT !.enabled = Some(FALSE)], "EndOfTick", "UI"),
     InstantiateRequest(5, "Osc", <<"osc">>, "Reactive", "EndOfTick", "UI"),
     InstantiateRequest(5, "Lfo", <<"lfo">>, "Reactive", "EndOfTick", "UI"),
     InstantiateRequest(2, "Osc", <<"osc">>, "Reactive", "EndOfTick", "UI"),
     InstantiateRequest(9, "Osc", <<"osc">>, "Reactive", "EndOfTick", "UI")}

InitEdit == \E b \in EditConfigs : InitFrom(EditEngine(b), EditMenu)

SpecEdit == InitEdit /\ [][Next]_vars

\* The same scenario with a behaviour that answers every change of p with an
\* Immediate edit that changes p again.
FlushConfigs ==
    {Behaviour(pr, "None", Some(2), "next") : pr \in {"Immediate", "EndOfTick"}}

FlushMenu == {SetParamRequest(2, IntVal(1), "EndOfTick", "UI")}

InitFlush == \E b \in FlushConfigs : InitFrom(SchedEngine(b), FlushMenu)

SpecFlush == InitFlush /\ [][Next]_vars

\* The tree scenario: hosts build the tree themselves.  The engine starts with
\* the root alone; a host creates containers and calls add_child with any two
\* identifiers, stored or not.  Ticks are left out of this scenario: a tick
\* changes tree links only by instantiating a managed child, which the editing
\* scenario does.
Detached(ns, child) ==
    /\ child \in DOMAIN ns
    /\ ns[child].parent = None
    /\ ns[child].prev_sibling = None
    /\ ns[child].next_sibling = None

\* create_container_node without the add_child that hosts let follow it.
HostCreateNode ==
    /\ stack = <<>>
    /\ Cardinality(DOMAIN nodes) < MaxNodes
    /\ Install(create_node([Eng EXCEPT !.uuids = @ + 1], "Container", "Reactive",
                           ContainerData, create_meta(<<"group">>, uuids + 1), None,
                           MaxCreateDepth).e)
    /\ UNCHANGED stack
    /\ HistoryUnchanged

\* add_child called by a host.  NextNodeId(nodes) is an identifier the store
\* does not hold.
HostAddChild ==
    /\ stack = <<>>
    /\ Len(calls) < MaxAddChild
    /\ \E parent, child \in 1..NextNodeId(nodes) :
          /\ Install(add_child(Eng, parent, child))
          /\ calls' = Append(calls,
                  [parent |-> parent, child |-> child,
                   valid |-> parent \in DOMAIN nodes /\ Detached(nodes, child)
                                /\ parent # child])
    /\ UNCHANGED <<stack, handed, carried, pre_values, menu, project, poller, enqueued, updated>>

NextTree ==
    \/ HostCreateNode
    \/ HostAddChild

InitTree == InitFrom(EngineNew, {})

SpecTree == InitTree /\ [][NextTree]_vars

\* The subscription scenario: root > (a > p, s, q).  a and s carry behaviours
\* that answer every ParamChanged they are handed with an EndOfTick edit of q:
\* a gets p's events bubbled, s gets them through its subscription.  The root
\* subscribes to p's metadata changes.
ListenerSpec(subscriber, filter) ==
    [subscriber |-> subscriber, filter |-> filter, delivery |-> "Raw"]

on_param_change(subscriber, param) ==
    ListenerSpec(subscriber, [type |-> "ParamChanged", param |-> Some(param)])

on_meta_changed(subscriber, node) ==
    ListenerSpec(subscriber, [type |-> "MetaChanged", node |-> Some(node)])

subscribe(e, spec) == [e EXCEPT !.subscriptions = Append(@, spec)]

SubConfigs == {"reset", "next"}

SubEngine(write) ==
    subscribe(
        subscribe(
            AddCreated(
                create_parameter_node(
                    AddCreated(
                        create_behaviour_container(
                            add_child(
                                AddCreated(
                                    create_behaviour_container(
                                        create_parameter_node(EngineNew, <<"p">>, IntVal(0)).e,
                                        "Group", <<"a">>, "Reactive",
                                        Some(Behaviour("EndOfTick", "None", Some(5), "next"))),
                                    RootId).e,
                                3, 2),
                            "Listener", <<"s">>, "Reactive",
                            Some(Behaviour("EndOfTick", "None", Some(5), write))),
                        RootId).e,
                    <<"q">>, IntVal(0)),
                RootId).e,
            on_param_change(4, 2)),
        on_meta_changed(RootId, 2))

SubMenu ==
    {SetParamRequest(2, IntVal(1), "EndOfTick", "UI"),
     SetParamRequest(2, IntVal(2), "Immediate", "UI"),
     SetParamRequest(5, IntVal(2), "EndOfTick", "UI"),
     PatchMetaRequest(2, [EmptyPatch EXCEPT !.label = Some(<<"P">>)], "EndOfTick", "UI")}

InitSub == \E write \in SubConfigs : InitFrom(SubEngine(write), SubMenu)

SpecSub == InitSub /\ [][Next]_vars

\* The manager scenario (S4): root > outputs, a manager that registers "Osc"
\* with a schema declaring the parameter drive and a factory whose behaviour
\* resets drive from its update hook and whenever it is handed a change of it.
\* Node 4 is the drive of the first child the manager instantiates.
ManagedSchema ==
    NodeSchema(<<ParamDecl(<<"drive">>, IntVal(0), "ValueChange", NoConstraints)>>)

ManagedRegistration ==
    [schema |-> ManagedSchema,
     behaviour_factory |-> Behaviour("EndOfTick", "EndOfTick", <<"drive">>, "reset")]

ManagerEngine ==
    AddCreated(create_manager_node(EngineNew, "Outputs", <<"outputs">>,
                                   ManagerData("Osc" :> ManagedRegistration)),
               RootId).e

ManagerMenu ==
    {InstantiateRequest(2, "Osc", <<"osc_a">>, "Continuous", "EndOfTick", "UI"),
     InstantiateRequest(2, "Osc", <<"osc_b">>, "Reactive", "EndOfTick", "UI"),
     SetParamRequest(4, IntVal(1), "EndOfTick", "UI")}

InitManager == InitFrom(ManagerEngine, ManagerMenu)

SpecManager == InitManager /\ [][Next]_vars

\* The schema scenario: root > lfos, a manager that registers "Lfo"; the engine's
\* registry may hold a schema for "Osc".  A decl-id is the sequence of its
\* dot-separated segments, none of them empty.
FolderDecl(decl_id, label) == [decl_id |-> decl_id, label |-> label]

DeclaredChild(decl_id, node_type) ==
    [decl_id |-> decl_id, node_type |-> node_type, default_label |-> Some(decl_id),
     default_enabled |-> TRUE]

InFolder(param, folder) == [param EXCEPT !.folder = Some(folder)]

SchemaOf(folders, params, declared_children) ==
    [NodeSchema(params) EXCEPT !.folders = folders,
                               !.declared_children = declared_children]

\* What the node macros generate next to every folder and parameter
\* declaration: a declared child of type Folder or Parameter.
MacroChildren(folders, params) ==
    [i \in 1..Len(folders) |-> DeclaredChild(folders[i].decl_id, "Folder")]
        \o [i \in 1..Len(params) |-> DeclaredChild(params[i].decl_id, "Parameter")]

MacroSchema(folders, params) == SchemaOf(folders, params, MacroChildren(folders, params))

IntParam(decl_id) == ParamDecl(decl_id, IntVal(0), "ValueChange", NoConstraints)

\* intensity, enabled and the folder connection holding host and port.
ConnectionSchema ==
    MacroSchema(<<FolderDecl(<<"connection">>, None)>>,
                <<ParamDecl(<<"intensity">>, IntVal(1), "ValueChange",
                            IntConstraints(0, 2, TRUE)),
                  ParamDecl(<<"enabled">>, BoolVal(1), "Always", NoConstraints),
                  InFolder(IntParam(<<"host">>), <<"connection">>),
                  InFolder(IntParam(<<"port">>), <<"connection">>)>>)

\* Folder declarations that share prefixes, in both declaration orders.
FolderLists ==
    {<<FolderDecl(<<"a", "b">>, None), FolderDecl(<<"a", "c">>, None)>>,
     <<FolderDecl(<<"a">>, Some(<<"A">>)), FolderDecl(<<"a", "b">>, None)>>,
     <<FolderDecl(<<"a", "b">>, Some(<<"B">>)), FolderDecl(<<"a">>, None)>>,
     <<FolderDecl(<<"a", "b", "c">>, None)>>}

FolderSchema(folders) ==
    MacroSchema(folders, <<InFolder(IntParam(<<"x">>), folders[1].decl_id)>>)

\* A schema written by hand as golden_app's main does: declared children of
\* type Parameter and no parameter declaration.
HandSchema ==
    SchemaOf(<<>>, <<>>, <<DeclaredChild(<<"intensity">>, "Parameter"),
                           DeclaredChild(<<"target">>, "Parameter")>>)

\* The schema the registry holds for "Osc": the folder a holding x.
OscFolderSchema == FolderSchema(<<FolderDecl(<<"a">>, None)>>)

\* A schema that declares a child of the registered type "Osc".
NestingSchema ==
    SchemaOf(<<>>, <<IntParam(<<"x">>)>>,
             <<DeclaredChild(<<"x">>, "Parameter"), DeclaredChild(<<"osc">>, "Osc")>>)

\* The registry (type |-> schema) and the schema the manager registers for "Lfo".
SchemaScenarios ==
    {[registry |-> EmptyMap, managed |-> FolderSchema(folders)] : folders \in FolderLists}
        \cup {[registry |-> EmptyMap, managed |-> ConnectionSchema],
              [registry |-> EmptyMap, managed |-> HandSchema],
              [registry |-> "Osc" :> OscFolderSchema, managed |-> NestingSchema]}

LfoRegistration(sch) ==
    [schema |-> sch, behaviour_factory |-> Behaviour("EndOfTick", "None", <<"x">>, "reset")]

SchemaEngine(scenario) ==
    AddCreated(create_manager_node([EngineNew EXCEPT !.schema = scenario.registry],
                                   "Lfos", <<"lfos">>,
                                   ManagerData("Lfo" :> LfoRegistration(scenario.managed))),
               RootId).e

\* Node 4 is the parameter x of the first instance of NestingSchema.
SchemaMenu ==
    {InstantiateRequest(2, "Lfo", <<"lfo">>, "Reactive", "EndOfTick", "UI"),
     SetParamRequest(4, IntVal(1), "EndOfTick", "UI")}

InitSchema == \E scenario \in SchemaScenarios : InitFrom(SchemaEngine(scenario), SchemaMenu)

SpecSchema == InitSchema /\ [][Next]_vars

\* The same scenario with the managed type "Lfo" registered twice: in the
\* engine's registry through register_schema and in the manager.
TwiceSchemas == {MacroSchema(<<>>, <<IntParam(<<"x">>)>>), OscFolderSchema}

InitTwice ==
    \E sch \in TwiceSchemas :
        InitFrom(SchemaEngine([registry |-> register_schema(EngineNew, "Lfo", sch).schema,
                               managed |-> sch]),
                 SchemaMenu)

SpecTwice == InitTwice /\ [][Next]_vars

\* The same scenario with a registry whose schemas declare a child of their own
\* type: "Osc" directly, or "Osc" through "Amp".
SelfDeclaring(node_type) == SchemaOf(<<>>, <<>>, <<DeclaredChild(<<"sub">>, node_type)>>)

SelfRegistries ==
    {register_schema(EngineNew, "Osc", SelfDeclaring("Osc")).schema,
     register_schema(register_schema(EngineNew, "Osc", SelfDeclaring("Amp")),
                     "Amp", SelfDeclaring("Osc")).schema}

InitSelf ==
    \E registry \in SelfRegistries :
        InitFrom(SchemaEngine([registry |-> registry, managed |-> NestingSchema]), SchemaMenu)

SpecSelf == InitSelf /\ [][Next]_vars

\* The panic scenario of the playground's main: root > osc > (drive, panic),
\* osc of a type whose params!-declared schema holds the Int parameter drive and
\* the Trigger parameter panic; its behaviour writes drive for every ParamChanged
\* it is handed.
PanicSchema ==
    MacroSchema(<<>>, <<IntParam(<<"drive">>),
                        ParamDecl(<<"panic">>, TriggerVal, "ValueChange", NoConstraints)>>)

PanicBehaviours ==
    {Behaviour("Immediate", "None", Some(3), "reset"),
     Behaviour("EndOfTick", "None", Some(3), "next")}

PanicEngine(b) ==
    AddCreated(create_behaviour_container(
                  register_schema(EngineNew, "OscOutput", PanicSchema),
                  "OscOutput", <<"osc">>, "Reactive", Some(b)),
               RootId).e

PanicMenu ==
    {SetParamRequest(4, TriggerVal, propagation, "UI") : propagation \in {"Immediate", "EndOfTick"}}
        \cup {SetParamRequest(3, IntVal(1), "EndOfTick", "UI")}

InitPanic == \E b \in PanicBehaviours : InitFrom(PanicEngine(b), PanicMenu)

SpecPanic == InitPanic /\ [][Next]_vars

\* The long-running scenario: the scheduling tree root > outputs > p, where
\* outputs resets p whenever it is handed a change of it, after `ticks` ticks
\* whose batch was one SetParam(p, 1).  Each of these ticks logged the change
\* to 1 at micro 0, seq 0 and the reset at seq 1, ran one stabilization round
\* that emitted nothing, and left every inbox empty.
ResetBehaviour == Behaviour("EndOfTick", "None", Some(2), "reset")

TickLog(ticks) ==
    [i \in 1..(2 * ticks) |->
        IF i % 2 = 1
        THEN [time |-> EventTime((i + 1) \div 2, 0, 0), kind |-> ParamChanged(2, IntVal(1))]
        ELSE [time |-> EventTime(i \div 2, 0, 1), kind |-> ParamChanged(2, IntVal(0))]]

EngineAfter(e, ticks) ==
    [e EXCEPT !.time = EventTime(ticks, 1, 0),
              !.event_log = @ \o TickLog(ticks),
              !.emitted = @ + 2 * ticks,
              !.inboxes = [n \in DOMAIN @ |-> <<>>]]

\* So many ticks that the log is one event short of MAX_EVENT_LOG.
LogTicks == (MAX_EVENT_LOG - 6) \div 2

LogMenu ==
    {SetParamRequest(2, IntVal(1), "EndOfTick", "UI"),
     SetParamRequest(2, IntVal(2), "Immediate", "UI")}

InitLog == InitFrom(EngineAfter(SchedEngine(ResetBehaviour), LogTicks), LogMenu)

LongEnqueueEdit == EnqueueEditBefore(LogTicks + MaxTick)

LongTick == TickUpTo(LogTicks + MaxTick)

NextLog ==
    \/ LongEnqueueEdit
    \/ LongTick
    \/ ApplyEditRequest
    \/ ApplyEditRequestsReturn
    \/ ProcessNode
    \/ ProcessPendingReturn
    \/ RunUpdatePass
    \/ UpdateNode
    \/ RunUpdatePassReturn
    \/ ReactiveDrain
    \/ StabilizationRound
    \/ StabilizationEnd
    \/ TickReturn

SpecLog == InitLog /\ [][NextLog]_vars

----------------------------------------------------------------------------
\* Export scenarios: the host builds a tree of schema-typed nodes, edits
\* parameters and calls export_project between ticks.

PotentialSlot(decl_id, allowed_types) ==
    [decl_id |-> decl_id, allowed_types |-> allowed_types]

\* Osc: folder connection holding host and port, beside intensity.
DeviceSchema ==
    MacroSchema(<<FolderDecl(<<"connection">>, None)>>,
                <<ParamDecl(<<"intensity">>, IntVal(1), "ValueChange", NoConstraints),
                  InFolder(IntParam(<<"host">>), <<"connection">>),
                  InFolder(IntParam(<<"port">>), <<"connection">>)>>)

LfoSchema == MacroSchema(<<>>, <<IntParam(<<"x">>), IntParam(<<"y">>)>>)

ShelfSchema == SchemaOf(<<>>, <<>>, <<DeclaredChild(<<"lfo">>, "Lfo")>>)

\* Bay declares child lfo and also lists lfo, beside aux, as a potential slot.
BaySchema ==
    [ShelfSchema EXCEPT !.potential_slots = <<PotentialSlot(<<"lfo">>, <<"Lfo">>),
                                             PotentialSlot(<<"aux">>, <<"Lfo">>)>>]

ExportRegistry ==
    ("Osc" :> DeviceSchema) @@ ("Lfo" :> LfoSchema) @@ ("Shelf" :> ShelfSchema)
        @@ ("Bay" :> BaySchema)

\* `let id = engine.create_node(node_type, label, ..); engine.add_child(parent, id);`
HostNode(e, parent, node_type, label) ==
    AddCreated(create_node([e EXCEPT !.uuids = @ + 1], node_type, "Passive",
                           default_node_data_for_type(e.schema, node_type),
                           create_meta(label, e.uuids + 1), None, MaxCreateDepth),
               parent)

HostParameter(e, parent, label, value) ==
    AddCreated(create_parameter_node(e, label, value), parent)

ParamNamed(e, decl_id) ==
    CHOOSE n \in DOMAIN e.nodes :
        e.nodes[n].node_type = "Parameter" /\ e.nodes[n].meta.decl_id = decl_id

EmptyProject == [EngineNew EXCEPT !.schema = ExportRegistry]

OscProject == HostNode(EmptyProject, RootId, "Osc", <<"osc">>).e

\* A bay with its declared lfo, an lfo in slot aux and a free parameter.
BayWith(c) ==
    HostParameter(HostNode(c.e, c.id, "Lfo", <<"aux">>).e, c.id, <<"note">>, IntVal(0)).e

BayProject == BayWith(HostNode(EmptyProject, RootId, "Bay", <<"bay">>))

\* A shelf with its declared lfo, and a root parameter referring to the lfo's x.
ReferringTo(e, decl_id) ==
    HostParameter(e, RootId, <<"target">>,
                  ReferenceVal(e.nodes[ParamNamed(e, decl_id)].meta.uuid)).e

ShelfProject == ReferringTo(HostNode(EmptyProject, RootId, "Shelf", <<"shelf">>).e, <<"x">>)

\* The playground's tree: parameter p under a container whose behaviour resets it.
PlaygroundProject == SchedEngine(ResetBehaviour)

ExportProjects == {OscProject, BayProject, ShelfProject, PlaygroundProject}

ExportMenu(e) ==
    {SetParamRequest(n, IntVal(1), "EndOfTick", "UI") :
        n \in {n \in DOMAIN e.nodes :
                 /\ e.nodes[n].node_type = "Parameter"
                 /\ e.nodes[n].meta.decl_id \in {<<"host">>, <<"x">>, <<"y">>, <<"p">>}
                 /\ e.nodes[e.nodes[n].parent[1]].meta.decl_id # <<"aux">>}}

InitExport == \E e \in ExportProjects : InitFrom(e, ExportMenu(e))

\* The host calls export_project(engine, root) between two ticks.
HostExport ==
    /\ stack = <<>>
    /\ \E root \in export_project(Eng, RootId) : project' = Some(root)
    /\ UNCHANGED <<time, nodes, inboxes, subscriptions, pending_edits, schema, event_log,
                   param_values, meta_values, uuids, stack, handed, carried, pre_values,
                   overflow, emitted, menu, poller, enqueued, calls, updated>>

NextExport == Next \/ HostExport

SpecExport == InitExport /\ [][NextExport]_vars

----------------------------------------------------------------------------
\* The relay scenario: container a (Continuous) holds parameter p and writes it
\* from its update hook; listener s subscribes to p and answers its changes by
\* writing parameter q; a subscribes to q.

\* In the last configuration a also answers every change of p by writing p
\* again, which no number of rounds settles.
\* In the configurations after it s has an update hook of its own, in each
\* execution class.
RelayConfigs ==
    {[a |-> Behaviour("None", "EndOfTick", Some(2), "next"), class |-> "Reactive",
      s |-> Behaviour("EndOfTick", "None", Some(5), write)] : write \in {"reset", "next"}}
        \cup {[a |-> Behaviour("EndOfTick", "EndOfTick", Some(2), "next"),
                class |-> "Reactive", s |-> Behaviour("None", "None", Some(5), "reset")]}
        \cup {[a |-> Behaviour("None", "EndOfTick", Some(2), "next"), class |-> class,
                s |-> Behaviour("None", "EndOfTick", Some(5), "next")] :
                    class \in {"Passive", "Reactive", "Continuous"}}

RelayEngine(c) ==
    subscribe(
        subscribe(
            AddCreated(
                create_parameter_node(
                    AddCreated(
                        create_behaviour_container(
                            add_child(
                                AddCreated(
                                    create_behaviour_container(
                                        create_parameter_node(EngineNew, <<"p">>, IntVal(0)).e,
                                        "Group", <<"a">>, "Continuous", Some(c.a)),
                                    RootId).e,
                                3, 2),
                            "Listener", <<"s">>, c.class, Some(c.s)),
                        RootId).e,
                    <<"q">>, IntVal(0)),
                RootId).e,
            on_param_change(4, 2)),
        on_param_change(3, 5))

RelayMenu == {SetParamRequest(5, IntVal(1), "EndOfTick", "UI")}

InitRelay == \E c \in RelayConfigs : InitFrom(RelayEngine(c), RelayMenu)

SpecRelay == InitRelay /\ [][Next]_vars

----------------------------------------------------------------------------
\* The patch scenario: hosts patch the metadata of parameter p and of its
\* container with every combination of present and absent fields, before or
\* after a patch that gives p a description and tags, and set p.

Patches ==
    [enabled : {None, Some(FALSE)},
     label : {None, Some(<<"L">>)},
     description : {None, Some(None), Some(Some("d"))},
     tags : {None, Some(<<"t">>)},
     semantics : {None, Some([intent |-> Some("gain"), unit |-> None])},
     presentation : {None, Some([widget |-> Some("knob")])}]

Described == [EmptyPatch EXCEPT !.description = Some(Some("old")), !.tags = Some(<<"o">>)]

PatchMenu(node, patch) ==
    {PatchMetaRequest(2, Described, "EndOfTick", "UI"),
     PatchMetaRequest(node, patch, "EndOfTick", "UI"),
     SetParamRequest(2, IntVal(1), "EndOfTick", "UI")}

InitPatch ==
    \E node \in {2, 3}, patch \in Patches :
        InitFrom(SchedEngine(ResetBehaviour), PatchMenu(node, patch))

SpecPatch == InitPatch /\ [][Next]_vars

----------------------------------------------------------------------------
\* Properties of the tick scheduler.

\* The events the log holds for ticks that tick() ran (construction stamps its
\* events with tick 0), in emission order.
SameTick(i, j) ==
    /\ event_log[i].time.tick >= 1
    /\ event_log[i].time.tick = event_log[j].time.tick

\* C1: within one tick() call, an event emitted before another has a strictly
\* smaller EventTime, lexicographically on (tick, micro, seq); micro never
\* decreases inside a tick.
EventTimesIncrease ==
    \A i, j \in 1..Len(event_log) :
        (i < j /\ SameTick(i, j)) => TimeLess(event_log[i].time, event_log[j].time)

\* C2: a chain of nested immediate flushes inside one tick() is never deeper
\* than the stabilization ceiling MAX_STABILIZATION_ROUNDS.
FlushChainBounded == FlushDepth <= MAX_STABILIZATION_ROUNDS

\* An edit a behaviour's update or process hook produced is about to be applied:
\* the batch being applied was entered from process_pending or run_update_pass.
BehaviourEditNext ==
    /\ Len(stack) >= 2
    /\ Top.fn = "apply_edit_requests"
    /\ Top.edits # <<>>
    /\ stack[Len(stack) - 1].fn # "tick"

\* C3: an edit with NextTick propagation produced by a behaviour during a tick
\* is held in the external pending queue: applying the behaviour's batch
\* changes no node, parameter value or metadata and emits no event for it.
NextTickEditsHeld ==
    [][(BehaviourEditNext /\ Head(Top.edits).propagation = "NextTick")
          => /\ nodes' = nodes
             /\ param_values' = param_values
             /\ meta_values' = meta_values
             /\ event_log' = event_log
             /\ pending_edits' = Append(pending_edits, Head(Top.edits))]_vars

\* C4: a tick runs at most 8 stabilization rounds, and when it is about to
\* return either every inbox is empty or exactly 8 rounds were executed.
StabilizationRoundsBounded ==
    stack # <<>> =>
        /\ stack[1].round <= 8
        /\ stack[1].pc = "done" =>
              \/ \A n \in DOMAIN inboxes : inboxes[n] = <<>>
              \/ stack[1].round = 8

\* A tick that ends after 8 rounds with events still undelivered.
RoundsExhaustedWithResidue ==
    /\ stack # <<>>
    /\ stack[1].pc = "done"
    /\ stack[1].round = 8
    /\ \E n \in DOMAIN inboxes : inboxes[n] # <<>>

\* The events handed to the behaviour of node n so far in the current tick.
HandedTo(n) == IF n \in DOMAIN handed THEN handed[n] ELSE <<>>

\* C5: the events left in a node's inbox when tick() returns are in that inbox,
\* in the same order, until the next tick() starts, and by the end of the next
\* tick they have been handed, in that order and before any later event, to the
\* node's behaviour.
ResidueCarriedOver ==
    /\ stack = <<>> => inboxes = carried
    /\ (stack # <<>> /\ stack[1].pc = "done") =>
          \A n \in DOMAIN carried :
              nodes[n].behaviour # None => IsPrefix(carried[n], HandedTo(n))

\* The second tick ends after the residue of an exhausted first tick was handed
\* to the behaviour of `outputs`.
ResidueHandedNextTick ==
    /\ stack # <<>>
    /\ stack[1].pc = "done"
    /\ time.tick = 2
    /\ carried[3] # <<>>
    /\ carried[3][1].time.tick = 1
    /\ IsPrefix(carried[3], HandedTo(3))

----------------------------------------------------------------------------
\* Properties of edits and their events.

\* The events logged with tick t, in emission order.
EventsOfTick(t) == SelectSeq(event_log, LAMBDA ev : ev.time.tick = t)

\* No behaviour of the tree produces edits.
QuietBehaviours ==
    \A n \in DOMAIN nodes :
        \/ nodes[n].behaviour = None
        \/ nodes[n].behaviour[1].process = "None" /\ nodes[n].behaviour[1].update = "None"

\* Scenario S2 on the scheduling tree: the first tick found the external queue
\* holding SetParam{p, v1} Immediate then SetParam{p, v2} EndOfTick, with v1, v2
\* and p's value before the tick pairwise distinct, and has applied that batch.
S2Applied ==
    /\ Len(stack) = 1
    /\ time.tick = 1
    /\ Len(stack[1].external) = 2
    /\ \A i \in 1..2 : /\ stack[1].external[i].edit.type = "SetParam"
                       /\ stack[1].external[i].edit.node = 2
                       /\ stack[1].external[i].edit.value # pre_values[2]
    /\ stack[1].external[1].propagation = "Immediate"
    /\ stack[1].external[2].propagation = "EndOfTick"
    /\ stack[1].external[1].edit.value # stack[1].external[2].edit.value

S2First == stack[1].external[1].edit.value
S2Second == stack[1].external[2].edit.value

\* C6 as stated: in scenario S2 the ParamChanged for v1 is stamped (1, 1, 0),
\* the one for v2 later with tick 1, micro >= 1 and seq > 0, and p ends as v2.
S2StampsAsStated ==
    (S2Applied /\ QuietBehaviours) =>
        /\ \E i \in 1..Len(event_log) :
              event_log[i] = [time |-> EventTime(1, 1, 0), kind |-> ParamChanged(2, S2First)]
        /\ \E j \in 1..Len(event_log) :
              /\ event_log[j].kind = ParamChanged(2, S2Second)
              /\ event_log[j].time.tick = 1
              /\ event_log[j].time.micro >= 1
              /\ event_log[j].time.seq > 0
        /\ param_values[2] = S2Second

\* C6, amended: in scenario S2 the ParamChanged for v1 is the tick's first event
\* and is stamped (1, 0, 0), since the event is emitted before the flush advances
\* micro; a ParamChanged for v2 follows with tick 1 and micro >= 1; p's value is
\* v2 when the external batch has been applied; and when no behaviour produces
\* edits the tick logs exactly these two events, the second stamped (1, 1, 0),
\* and p stays v2.
S2Stamps ==
    S2Applied =>
        /\ EventsOfTick(1) # <<>>
        /\ EventsOfTick(1)[1] =
              [time |-> EventTime(1, 0, 0), kind |-> ParamChanged(2, S2First)]
        /\ \E j \in 2..Len(EventsOfTick(1)) :
              /\ EventsOfTick(1)[j].kind = ParamChanged(2, S2Second)
              /\ EventsOfTick(1)[j].time.micro >= 1
        /\ stack[1].pc = "update" =>
              param_values[2] = S2Second /\ nodes[2].data.value = S2Second
        /\ QuietBehaviours =>
              /\ EventsOfTick(1) =
                    <<[time |-> EventTime(1, 0, 0), kind |-> ParamChanged(2, S2First)],
                      [time |-> EventTime(1, 1, 0), kind |-> ParamChanged(2, S2Second)]>>
              /\ param_values[2] = S2Second

\* Scenario S2 has run to the end of its tick with no behaviour producing edits.
S2Done == S2Applied /\ QuietBehaviours /\ stack[1].pc = "done"

\* Scenario S1 on the editing tree: the running tick found the external queue
\* holding the single edit SetParam{level, v} EndOfTick with v different from
\* level's value, level is a ValueChange parameter and a child of rack, there
\* is no subscription and no behaviour produces edits; the batch is applied.
S1Applied ==
    /\ Len(stack) = 1
    /\ Len(stack[1].external) = 1
    /\ stack[1].external[1].edit.type = "SetParam"
    /\ stack[1].external[1].edit.node = 3
    /\ stack[1].external[1].propagation = "EndOfTick"
    /\ stack[1].external[1].edit.value # pre_values[3]
    /\ nodes[3].data.kind = "Parameter"
    /\ nodes[3].data.change = "ValueChange"
    /\ nodes[3].parent = Some(2)
    /\ subscriptions = <<>>
    /\ QuietBehaviours

S1Value == stack[1].external[1].edit.value
S1Event == [time |-> EventTime(time.tick, 0, 0), kind |-> ParamChanged(3, S1Value)]

\* C7: in scenario S1 the tick logs exactly one ParamChanged{level, v}, level's
\* value is v, and the event is delivered exactly once to level's own inbox and
\* exactly once, bubbled, to rack's inbox (and so reaches rack's behaviour once)
\* and to no other inbox.
SetParamDeliveredOnce ==
    S1Applied =>
        /\ Len(SelectSeq(EventsOfTick(time.tick),
                         LAMBDA ev : ev.kind = ParamChanged(3, S1Value))) = 1
        /\ CountIn(event_log, S1Event) = 1
        /\ param_values[3] = S1Value
        /\ nodes[3].data.value = S1Value
        /\ stack[1].pc = "update" =>
              /\ CountIn(inboxes[3], S1Event) = 1
              /\ CountIn(inboxes[2], S1Event) = 1
              /\ \A n \in DOMAIN inboxes \ {2, 3} : CountIn(inboxes[n], S1Event) = 0
        /\ stack[1].pc = "done" => CountIn(HandedTo(2), S1Event) = 1

\* Scenario S1 has run to the end of its tick and rack's behaviour got the event.
S1Done == S1Applied /\ stack[1].pc = "done" /\ CountIn(HandedTo(2), S1Event) = 1

\* C8: when the external queue holds the same SetParam twice for a ValueChange
\* parameter, applying the batch emits at most one ParamChanged for it: the
\* second application finds the value equal to its payload and is silent.
IdenticalSetParamsEmitOnce ==
    (/\ Len(stack) = 1
     /\ stack[1].pc = "update"
     /\ Len(stack[1].external) = 2
     /\ stack[1].external[1] = stack[1].external[2]
     /\ stack[1].external[1].edit.type = "SetParam"
     /\ stack[1].external[1].edit.node \in DOMAIN nodes
     /\ nodes[stack[1].external[1].edit.node].data.kind = "Parameter"
     /\ nodes[stack[1].external[1].edit.node].data.change = "ValueChange")
        => Len(SelectSeq(EventsOfTick(time.tick),
                LAMBDA ev : ev.kind = ParamChanged(stack[1].external[1].edit.node,
                                                   stack[1].external[1].edit.value))) <= 1

\* The target of an edit is invalid.
InvalidTarget(edit) ==
    CASE edit.type = "SetParam" ->
            edit.node \notin DOMAIN nodes \/ nodes[edit.node].data.kind # "Parameter"
      [] edit.type = "PatchMeta" -> edit.node \notin DOMAIN nodes
      [] edit.type = "InstantiateChildFromManager" ->
            \/ edit.manager \notin DOMAIN nodes
            \/ nodes[edit.manager].data.kind # "Manager"
            \/ edit.node_type \notin DOMAIN nodes[edit.manager].data.registrations

\* The frame of the batch being applied, after one more of its edits was applied.
BatchFrameAfter(propagation) ==
    IF propagation = "Immediate" THEN stack'[Len(stack') - 1] ELSE stack'[Len(stack')]

\* C9: applying an edit whose target is invalid creates no node, changes no
\* parameter value, metadata or tree link, emits and delivers no event, and
\* leaves the rest of the batch to be applied.
InvalidEditsDropped ==
    [][(/\ stack # <<>>
        /\ Top.fn = "apply_edit_requests"
        /\ Top.edits # <<>>
        /\ InvalidTarget(Head(Top.edits).edit))
          => /\ nodes' = nodes
             /\ param_values' = param_values
             /\ meta_values' = meta_values
             /\ event_log' = event_log
             /\ inboxes' = inboxes
             /\ BatchFrameAfter(Head(Top.edits).propagation).fn = "apply_edit_requests"
             /\ BatchFrameAfter(Head(Top.edits).propagation).edits = Tail(Top.edits)]_vars

\* A batch of an invalid edit followed by SetParam{level, 1} has been applied in
\* the first tick: the only event is the ParamChanged of the second edit.
InvalidThenValidApplied ==
    /\ Len(stack) = 1
    /\ stack[1].pc = "update"
    /\ time.tick = 1
    /\ Len(stack[1].external) = 2
    /\ InvalidTarget(stack[1].external[1].edit)
    /\ stack[1].external[2] = SetParamRequest(3, IntVal(1), "EndOfTick", "UI")
    /\ param_values[3] = IntVal(1)
    /\ Len(EventsOfTick(1)) = 1
    /\ EventsOfTick(1)[1].kind = ParamChanged(3, IntVal(1))

\* A value satisfies declared constraints.
Satisfies(value, c) ==
    CASE c.kind = "None" -> TRUE
      [] c.kind = "Int" -> /\ value.tag = "Int"
                           /\ c.min # None => value.v >= c.min[1]
                           /\ c.max # None => value.v <= c.max[1]

\* C10: every parameter's current value satisfies its declared constraints.
ParametersWithinConstraints ==
    \A n \in DOMAIN nodes :
        nodes[n].data.kind = "Parameter"
            => Satisfies(nodes[n].data.value, nodes[n].data.constraints)

----------------------------------------------------------------------------
\* Properties of the tree.

\* The links of a node that hold an identifier.
LinksOf(node) ==
    {l \in {node.parent, node.first_child, node.last_child, node.prev_sibling,
            node.next_sibling} : l # None}

\* C11: the children of each node form a consistent doubly-linked sequence:
\* next_sibling and prev_sibling are inverses, first_child has no prev_sibling,
\* last_child has no next_sibling, and every node on the sequence has the owning
\* node as its parent.  (Links to identifiers the store does not hold are left
\* to C13.)
SiblingsConsistent ==
    \A n \in DOMAIN nodes :
        /\ \A s \in DOMAIN nodes :
              /\ nodes[n].next_sibling = Some(s) => nodes[s].prev_sibling = Some(n)
              /\ nodes[n].prev_sibling = Some(s) => nodes[s].next_sibling = Some(n)
              /\ nodes[n].first_child = Some(s) => nodes[s].prev_sibling = None
              /\ nodes[n].last_child = Some(s) => nodes[s].next_sibling = None
        /\ \A i \in 1..Len(collect_children(nodes, n)) :
              collect_children(nodes, n)[i] \in DOMAIN nodes
                  => nodes[collect_children(nodes, n)[i]].parent = Some(n)

\* The parent chain of node ends within fuel steps.
RECURSIVE ParentChainEnds(_, _, _)
ParentChainEnds(ns, node, fuel) ==
    IF node \notin DOMAIN ns THEN TRUE
    ELSE IF ns[node].parent = None THEN TRUE
    ELSE IF fuel = 0 THEN FALSE
    ELSE ParentChainEnds(ns, ns[node].parent[1], fuel - 1)

\* C12: no add_child call creates a cycle, so the parent chain of every node is
\* finite: it ends after at most as many steps as there are nodes.
ParentChainsFinite ==
    \A n \in DOMAIN nodes : ParentChainEnds(nodes, n, Cardinality(DOMAIN nodes))

\* C13: add_child with an identifier the store does not hold changes nothing,
\* so every identifier referenced by a tree link is in the node store.
TreeLinksExist ==
    \A n \in DOMAIN nodes : \A l \in LinksOf(nodes[n]) : l[1] \in DOMAIN nodes

\* Every add_child call so far had an existing parent and an existing detached
\* child other than the parent.
AllCallsValid == \A i \in 1..Len(calls) : calls[i].valid

\* The children the calls cs gave to parent, in call order.
RECURSIVE CalledChildren(_, _)
CalledChildren(cs, parent) ==
    IF cs = <<>> THEN <<>>
    ELSE (IF Head(cs).parent = parent THEN <<Head(cs).child>> ELSE <<>>)
            \o CalledChildren(Tail(cs), parent)

ChildAddedEvents == SelectSeq(event_log, LAMBDA ev : ev.kind.type = "ChildAdded")

\* C14: when every add_child call had an existing parent and an existing
\* detached child, each call appended its child: the ordered child list of every
\* node is the children of the calls on it in call order, ending with its
\* last_child; every called child has the call's parent as its parent; and every
\* call emitted exactly one ChildAdded{parent, child}, in call order.
ChildOrderFollowsCalls ==
    AllCallsValid =>
        /\ \A p \in DOMAIN nodes :
              /\ collect_children(nodes, p) = CalledChildren(calls, p)
              /\ nodes[p].last_child =
                    IF CalledChildren(calls, p) = <<>> THEN None
                    ELSE Some(CalledChildren(calls, p)[Len(CalledChildren(calls, p))])
        /\ \A i \in 1..Len(calls) : nodes[calls[i].child].parent = Some(calls[i].parent)
        /\ Len(ChildAddedEvents) = Len(calls)
        /\ \A i \in 1..Len(calls) :
              ChildAddedEvents[i].kind = ChildAdded(calls[i].parent, calls[i].child)

\* Two detached nodes were added to the root one after the other, and then the
\* root, itself detached, to the second of them.
ChildrenInCallOrder ==
    /\ AllCallsValid
    /\ Len(calls) = 3
    /\ calls[1].parent = RootId
    /\ calls[2].parent = RootId
    /\ calls[3].parent = calls[2].child
    /\ collect_children(nodes, RootId) = <<calls[1].child, calls[2].child>>
    /\ collect_children(nodes, calls[2].child) = <<calls[3].child>>

\* The number of NodeCreated{node = n} events in the log.
NodeCreatedCount(n) ==
    Cardinality({i \in 1..Len(event_log) : event_log[i].kind = NodeCreated(n)})

\* C15: for every node ever created (the root, nodes of create_node, nodes of
\* schema auto-instantiation and of manager instantiation) exactly one
\* NodeCreated{node = n} event was emitted, and none for any other identifier.
NodeCreatedOnce ==
    /\ \A n \in DOMAIN nodes : NodeCreatedCount(n) = 1
    /\ \A i \in 1..Len(event_log) :
          event_log[i].kind.type = "NodeCreated" => event_log[i].kind.node \in DOMAIN nodes

\* Two managed children were instantiated by ticks, each with the parameter its
\* registered schema declares, next to the rack's auto-instantiated parameters.
ManagedChildrenCreated ==
    /\ stack = <<>>
    /\ Cardinality({n \in DOMAIN nodes : nodes[n].node_type = "Osc"}) = 2
    /\ \A n \in DOMAIN nodes :
          nodes[n].node_type = "Osc" =>
              /\ nodes[n].parent = Some(5)
              /\ nodes[n].first_child # None
              /\ nodes[nodes[n].first_child[1]].meta.decl_id = <<"drive">>
    /\ nodes[3].parent = Some(2)
    /\ nodes[3].meta.decl_id = <<"level">>

----------------------------------------------------------------------------
\* Properties of a drain pass.

\* Node n has a behaviour.
Behaves(n) == n \in DOMAIN nodes /\ nodes[n].behaviour # None

\* C16: the outcome of a drain pass does not depend on the order in which the
\* nodes with non-empty inboxes are visited: whichever two ready nodes are
\* visited first, in either order, the event log and the parameter values
\* after the two visits are the same.
DrainOrderIrrelevant ==
    (stack # <<>> /\ Top.fn = "process_pending") =>
        \A n1, n2 \in Top.ready :
            /\ VisitNode(VisitNode(Eng, n1, Top.phase), n2, Top.phase).event_log
                  = VisitNode(VisitNode(Eng, n2, Top.phase), n1, Top.phase).event_log
            /\ VisitNode(VisitNode(Eng, n1, Top.phase), n2, Top.phase).param_values
                  = VisitNode(VisitNode(Eng, n2, Top.phase), n1, Top.phase).param_values

\* C17: whenever a behaviour is about to be invoked in a reactive drain round
\* or an update pass, the parameter values and metadata it can read are those
\* of the start of that round or pass.
ReadsSeeRoundStart ==
    /\ (stack # <<>> /\ Top.fn = "process_pending" /\ \E n \in Top.ready : Behaves(n))
          => ReadViews(Eng) = Top.started
    /\ (/\ stack # <<>>
        /\ Top.fn = "run_update_pass"
        /\ \E i \in 1..Len(Top.node_ids) :
              Behaves(Top.node_ids[i]) /\ nodes[Top.node_ids[i]].execution = "Continuous")
          => ReadViews(Eng) = Top.started

----------------------------------------------------------------------------
\* Properties of event delivery.

\* An edit of the batch being applied is applied by this step and emits
\* exactly one event.
OneEventEmitted ==
    /\ stack # <<>>
    /\ Top.fn = "apply_edit_requests"
    /\ Top.edits # <<>>
    /\ Len(event_log') = Len(event_log) + 1

EmittedEvent == event_log'[Len(event_log')]

\* The events this step pushed to the inbox of node n.
Pushed(n) ==
    IF n \in DOMAIN inboxes
    THEN SubSeq(inboxes'[n], Len(inboxes[n]) + 1, Len(inboxes'[n]))
    ELSE inboxes'[n]

\* C18: with a subscription {subscriber s, filter ParamChanged{param = Some(p)}}
\* where s is neither a parameter nor the parent of one, an applied SetParam
\* that changes p pushes exactly one ParamChanged{p} to s's inbox, an applied
\* SetParam that changes another parameter pushes nothing to s, and a node that
\* is neither the changed parameter, nor its parent, nor a subscriber is pushed
\* nothing.
SubscriberDeliveredOnce ==
    [][(OneEventEmitted /\ Head(Top.edits).edit.type = "SetParam") =>
          /\ EmittedEvent.kind =
                ParamChanged(Head(Top.edits).edit.node, Head(Top.edits).edit.value)
          /\ \A i \in 1..Len(subscriptions) :
                subscriptions[i].filter.type = "ParamChanged" =>
                    Pushed(subscriptions[i].subscriber) =
                        IF subscriptions[i].filter.param = Some(Head(Top.edits).edit.node)
                        THEN <<EmittedEvent>> ELSE <<>>
          /\ \A b \in DOMAIN inboxes' :
                (/\ b # Head(Top.edits).edit.node
                 /\ nodes[Head(Top.edits).edit.node].parent # Some(b)
                 /\ \A i \in 1..Len(subscriptions) : subscriptions[i].subscriber # b)
                    => Pushed(b) = <<>>]_vars

\* The events of the running tick in the inbox of node n.
InboxOfTick(n) == SelectSeq(inboxes[n], LAMBDA ev : ev.time.tick = time.tick)

\* The external batch SetParam{q}, SetParam{p} of the first tick is applied: s
\* holds the one ParamChanged of p and nothing of q, and q holds only its own.
SubscriberGotOne ==
    /\ Len(stack) = 1
    /\ stack[1].pc = "update"
    /\ time.tick = 1
    /\ stack[1].external = <<SetParamRequest(5, IntVal(2), "EndOfTick", "UI"),
                             SetParamRequest(2, IntVal(1), "EndOfTick", "UI")>>
    /\ Len(EventsOfTick(1)) = 2
    /\ InboxOfTick(4) = <<EventsOfTick(1)[2]>>
    /\ EventsOfTick(1)[2].kind = ParamChanged(2, IntVal(1))
    /\ InboxOfTick(5) = <<EventsOfTick(1)[1]>>

\* The number of times node n is an own target of an event kind.
OwnTargetCount(kind, n) == CountIn(event_targets(kind), n)

\* The number of subscriptions of subscriber n whose filter matches event.
MatchingSubscriptions(event, n) ==
    Cardinality({i \in 1..Len(subscriptions) :
        subscriptions[i].subscriber = n /\ matches_filter(subscriptions[i].filter, event, nodes')})

\* Node n is the parent of the bubble source of an event kind.
ParentOfSource(kind, n) ==
    /\ event_bubble_source(kind)[1] \in DOMAIN nodes'
    /\ nodes'[event_bubble_source(kind)[1]].parent = Some(n)

\* C19: an emitted event is bubbled exactly one level.  The parent of its
\* bubble source is pushed the event once more than it is pushed as an own
\* target and as a matching subscriber; every other node, the grandparent and
\* higher ancestors among them, is pushed the event only as an own target or a
\* matching subscriber.
BubbledOneLevel ==
    [][OneEventEmitted =>
          \A n \in DOMAIN inboxes' :
              /\ \A i \in 1..Len(Pushed(n)) : Pushed(n)[i] = EmittedEvent
              /\ Len(Pushed(n)) =
                    OwnTargetCount(EmittedEvent.kind, n)
                        + MatchingSubscriptions(EmittedEvent, n)
                        + (IF ParentOfSource(EmittedEvent.kind, n) THEN 1 ELSE 0)]_vars

\* The external batch PatchMeta{p}, SetParam{p} of the first tick is applied:
\* a, the parent of p, holds both events; the root, p's grandparent, holds the
\* MetaChanged it subscribed to and not the ParamChanged.
GrandparentSkipped ==
    /\ Len(stack) = 1
    /\ stack[1].pc = "update"
    /\ time.tick = 1
    /\ Len(stack[1].external) = 2
    /\ stack[1].external[1].edit.type = "PatchMeta"
    /\ stack[1].external[2] = SetParamRequest(2, IntVal(1), "EndOfTick", "UI")
    /\ nodes[2].parent = Some(3)
    /\ nodes[3].parent = Some(RootId)
    /\ Len(EventsOfTick(1)) = 2
    /\ InboxOfTick(3) = EventsOfTick(1)
    /\ InboxOfTick(RootId) = <<EventsOfTick(1)[1]>>
    /\ EventsOfTick(1)[1].kind.type = "MetaChanged"

----------------------------------------------------------------------------
\* Properties of the manager pattern.

\* The children of the manager, in order.
Managed == collect_children(nodes, 2)

\* The InstantiateChildFromManager requests of the running tick's external
\* batch, in batch order.
IsInstantiate(request) == request.edit.type = "InstantiateChildFromManager"

Instantiations == SelectSeq(stack[1].external, IsInstantiate)

\* The child the i-th of these requests made.
ChildOfRequest(i) == Managed[Len(Managed) - Len(Instantiations) + i]

\* C20: when a tick has applied its external batch of InstantiateChildFromManager
\* requests on a manager that registers their type, the manager's last children
\* are the new nodes in request order, each with the requested type, label and
\* execution class; every managed child has the sub-tree of the registered
\* schema beneath it and the behaviour the factory builds for that sub-tree;
\* and the update pass of that tick and of every later tick invokes the update
\* hook of every managed child whose class is Continuous, and of no other.
ManagedChildBound ==
    /\ (Len(stack) = 1 /\ stack[1].pc = "update") =>
          /\ Len(Managed) >= Len(Instantiations)
          /\ Instantiations # <<>> => nodes[2].last_child = Some(Managed[Len(Managed)])
          /\ \A i \in 1..Len(Instantiations) :
                /\ nodes[ChildOfRequest(i)].node_type = Instantiations[i].edit.node_type
                /\ nodes[ChildOfRequest(i)].execution = Instantiations[i].edit.execution
                /\ nodes[ChildOfRequest(i)].meta.label = Instantiations[i].edit.label
                /\ NodeCreatedCount(ChildOfRequest(i)) = 1
                /\ \E j \in 1..Len(event_log) :
                      /\ event_log[j].kind = NodeCreated(ChildOfRequest(i))
                      /\ event_log[j].time.tick = time.tick
    /\ \A i \in 1..Len(Managed) :
          /\ nodes[Managed[i]].parent = Some(2)
          /\ Len(collect_children(nodes, Managed[i])) = 1
          /\ nodes[collect_children(nodes, Managed[i])[1]].meta.decl_id = <<"drive">>
          /\ nodes[collect_children(nodes, Managed[i])[1]].parent = Some(Managed[i])
          /\ nodes[collect_children(nodes, Managed[i])[1]].data =
                [kind |-> "Parameter", value |-> param_values[collect_children(nodes, Managed[i])[1]],
                 default |-> Some(IntVal(0)), read_only |-> FALSE, update |-> "EndOfTick",
                 save |-> "Delta", change |-> "ValueChange", constraints |-> NoConstraints]
          /\ nodes[Managed[i]].behaviour =
                Some(Behaviour("EndOfTick", "EndOfTick",
                               Some(collect_children(nodes, Managed[i])[1]), "reset"))
    /\ (/\ stack # <<>>
        /\ stack[1].pc \in {"drain", "stabilize", "done"}
        /\ \A k \in 1..Len(stack) : stack[k].fn # "run_update_pass") =>
          updated = {n \in DOMAIN nodes : nodes[n].parent = Some(2)
                                            /\ nodes[n].execution = "Continuous"}

\* The second tick ends with an empty batch: of the two children the first
\* tick instantiated, the Continuous one had its update hook invoked again and
\* the Reactive one had not.
ManagedChildUpdatedAgain ==
    /\ stack # <<>>
    /\ stack[1].pc = "done"
    /\ time.tick = 2
    /\ stack[1].external = <<>>
    /\ Len(Managed) = 2
    /\ nodes[Managed[1]].execution = "Continuous"
    /\ nodes[Managed[2]].execution = "Reactive"
    /\ nodes[Managed[1]].meta.label = <<"osc_a">>
    /\ nodes[Managed[2]].meta.label = <<"osc_b">>
    /\ updated = {Managed[1]}

----------------------------------------------------------------------------
\* Properties of schema materialization.

\* The schema that governed the creation of node n: the registry's schema for
\* its type, else the schema its manager registers for its type.
HasRegistration(n) ==
    /\ nodes[n].parent # None
    /\ nodes[n].parent[1] \in DOMAIN nodes
    /\ nodes[nodes[n].parent[1]].data.kind = "Manager"
    /\ nodes[n].node_type \in DOMAIN nodes[nodes[n].parent[1]].data.registrations

Governed == {n \in DOMAIN nodes : nodes[n].node_type \in DOMAIN schema \/ HasRegistration(n)}

GoverningSchema(n) ==
    IF nodes[n].node_type \in DOMAIN schema THEN schema[nodes[n].node_type]
    ELSE nodes[nodes[n].parent[1]].data.registrations[nodes[n].node_type].schema

\* The nodes below n that are reached through Folder nodes only.
RECURSIVE ThroughFolders(_, _, _)
ThroughFolders(p, n, fuel) ==
    /\ nodes[p].parent # None
    /\ \/ nodes[p].parent[1] = n
       \/ /\ fuel > 0
          /\ nodes[p].parent[1] \in DOMAIN nodes
          /\ nodes[nodes[p].parent[1]].node_type = "Folder"
          /\ ThroughFolders(nodes[p].parent[1], n, fuel - 1)

OwnNodes(n) == {p \in DOMAIN nodes : ThroughFolders(p, n, Cardinality(DOMAIN nodes))}

OwnOfType(n, node_type, decl_id) ==
    {p \in OwnNodes(n) : nodes[p].node_type = node_type /\ nodes[p].meta.decl_id = decl_id}

DeclIds(decls) == {decls[i].decl_id : i \in 1..Len(decls)}

AllDeclIds(sch) ==
    DeclIds(sch.folders) \cup DeclIds(sch.params) \cup DeclIds(sch.declared_children)

\* The binding instantiate_child_from_manager builds for the managed child.
BindingOf(child) == build_node_binding_from_schema(nodes, child, GoverningSchema(child))

\* C21: the binding built for every child a manager instantiated carries the
\* child's own node id and maps every decl-id the registered schema declares
\* (folders, parameters, declared children) to a node below that child.
BindingComplete ==
    \A child \in {n \in DOMAIN nodes : HasRegistration(n)} :
        /\ BindingOf(child).node_id = child
        /\ \A decl_id \in AllDeclIds(GoverningSchema(child)) :
              /\ decl_id \in DOMAIN BindingOf(child).by_decl
              /\ BindingOf(child).by_decl[decl_id] # child
              /\ is_node_in_subtree(nodes, child, BindingOf(child).by_decl[decl_id])

\* The node a parameter declaration's node is attached under.
ExpectedParent(n, param) ==
    IF param.folder # None /\ param.folder[1] \in DeclIds(GoverningSchema(n).folders)
    THEN OwnOfType(n, "Folder", param.folder[1])
    ELSE {n}

ChangedByEvent(p) ==
    \E i \in 1..Len(event_log) :
        event_log[i].kind.type = "ParamChanged" /\ event_log[i].kind.param = p

\* C22: below every node created for a type with a schema there is, for each
\* parameter declaration of the schema, exactly one Parameter node with the
\* declared decl-id; its parent is the folder node the declaration names, else
\* the node itself; its default, policies and constraints are the declared
\* ones, and so is its value until an edit changes it.
ParamsMaterialized ==
    \A n \in Governed :
        \A i \in 1..Len(GoverningSchema(n).params) :
            LET param == GoverningSchema(n).params[i] IN
            /\ Cardinality(OwnOfType(n, "Parameter", param.decl_id)) = 1
            /\ \A p \in OwnOfType(n, "Parameter", param.decl_id) :
                  /\ nodes[p].parent # None
                  /\ ExpectedParent(n, param) = {nodes[p].parent[1]}
                  /\ nodes[p].meta.short_name = param.decl_id
                  /\ nodes[p].meta.semantics = param.semantics
                  /\ nodes[p].meta.presentation = param.presentation
                  /\ nodes[p].data =
                        [kind |-> "Parameter", value |-> nodes[p].data.value,
                         default |-> Some(param.default), read_only |-> param.read_only,
                         update |-> param.update, save |-> param.save,
                         change |-> param.change, constraints |-> param.constraints]
                  /\ ChangedByEvent(p) \/ (/\ nodes[p].data.value = param.default
                                           /\ param_values[p] = param.default)

\* An instance of the connection schema: three children, the folder connection
\* first, and host and port inside the folder.
ConnectionMaterialized ==
    \E n \in Governed :
        /\ GoverningSchema(n) = ConnectionSchema
        /\ Len(collect_children(nodes, n)) = 3
        /\ nodes[collect_children(nodes, n)[1]].meta.decl_id = <<"connection">>
        /\ nodes[collect_children(nodes, n)[2]].meta.decl_id = <<"intensity">>
        /\ param_values[collect_children(nodes, n)[2]] = IntVal(1)
        /\ nodes[collect_children(nodes, n)[3]].meta.decl_id = <<"enabled">>
        /\ LET inside == collect_children(nodes, collect_children(nodes, n)[1]) IN
              /\ Len(inside) = 2
              /\ nodes[inside[1]].meta.decl_id = <<"host">>
              /\ nodes[inside[2]].meta.decl_id = <<"port">>

\* The cumulative prefixes of the folder declarations of a schema.
Prefixes(sch) ==
    UNION {{SubSeq(sch.folders[i].decl_id, 1, k) : k \in 1..Len(sch.folders[i].decl_id)} :
              i \in 1..Len(sch.folders)}

\* C23: below every node created for a type with a schema, each distinct
\* cumulative prefix of the declared folder paths has exactly one Folder node,
\* whose decl_id is the prefix, whose short_name is the prefix's last segment
\* and whose parent is the folder of the prefix without that segment, or the
\* node itself for a one-segment prefix; there are no other Folder nodes.
FoldersIdempotent ==
    \A n \in Governed :
        /\ \A prefix \in Prefixes(GoverningSchema(n)) :
              /\ Cardinality(OwnOfType(n, "Folder", prefix)) = 1
              /\ \A f \in OwnOfType(n, "Folder", prefix) :
                    /\ nodes[f].meta.short_name = <<prefix[Len(prefix)]>>
                    /\ nodes[f].parent # None
                    /\ IF Len(prefix) = 1 THEN nodes[f].parent[1] = n
                       ELSE OwnOfType(n, "Folder", SubSeq(prefix, 1, Len(prefix) - 1))
                                = {nodes[f].parent[1]}
        /\ Cardinality({p \in OwnNodes(n) : nodes[p].node_type = "Folder"})
                = Cardinality(Prefixes(GoverningSchema(n)))

\* An instance whose schema declares a.b before a: one folder a holding one
\* folder a.b.
SharedPrefixMaterialized ==
    \E n \in Governed :
        /\ GoverningSchema(n).folders =
                <<FolderDecl(<<"a", "b">>, Some(<<"B">>)), FolderDecl(<<"a">>, None)>>
        /\ \E f, g \in OwnNodes(n) :
              /\ nodes[f].meta.decl_id = <<"a">>
              /\ nodes[g].meta.decl_id = <<"a", "b">>
              /\ nodes[g].parent = Some(f)
              /\ nodes[f].parent = Some(n)
              /\ nodes[g].meta.label = <<"B">>

----------------------------------------------------------------------------
\* Properties of event time and of the event log.

\* C24: an event stamped with an earlier tick than another has the smaller
\* EventTime and stands before it in the event log; every tick() call raises
\* the tick counter by one and nothing else changes it.
TicksOrderEvents ==
    /\ [](\A i, j \in 1..Len(event_log) :
            event_log[i].time.tick < event_log[j].time.tick =>
                /\ TimeLess(event_log[i].time, event_log[j].time)
                /\ i < j)
    /\ [][IF stack = <<>> /\ stack' # <<>> THEN time'.tick = time.tick + 1
          ELSE time'.tick = time.tick]_vars

\* The log holds events of construction, of the first and of the second tick.
EventsOfThreeTicks ==
    /\ time.tick = 2
    /\ \A t \in 0..2 : \E i \in 1..Len(event_log) : event_log[i].time.tick = t

\* The events of the log that the step under way has emitted.
NewlyEmitted == emitted' - emitted

\* The events of the old log that the step under way has evicted.
Evicted ==
    IF Len(event_log) + NewlyEmitted > MAX_EVENT_LOG
    THEN Len(event_log) + NewlyEmitted - MAX_EVENT_LOG ELSE 0

\* C25: the event log never holds more than MAX_EVENT_LOG events, and every
\* step that emits events leaves the log equal to the old log without its
\* oldest events followed by the emitted events, as many old events being
\* dropped as the cap requires: the log is the most recent emitted events, in
\* emission order.
LogKeepsNewest ==
    /\ [](Len(event_log) = Min(emitted, MAX_EVENT_LOG))
    /\ [][/\ NewlyEmitted >= 0
          /\ Len(event_log') = Len(event_log) + NewlyEmitted - Evicted
          /\ SubSeq(event_log', 1, Len(event_log') - NewlyEmitted)
                = SubSeq(event_log, Evicted + 1, Len(event_log))
          /\ \A i \in (Len(event_log') - NewlyEmitted + 1)..Len(event_log') :
                /\ event_log'[i].time.tick = time'.tick
                /\ event_log'[i].kind.type = "ParamChanged"]_vars

\* More than MAX_EVENT_LOG events were emitted: the log is full, the events of
\* construction are gone from its front and its last event is of this tick.
OldestEvicted ==
    /\ emitted > MAX_EVENT_LOG + 1
    /\ Len(event_log) = MAX_EVENT_LOG
    /\ event_log[1].kind = NodeCreated(3)
    /\ event_log[MAX_EVENT_LOG].time.tick = LogTicks + 1

----------------------------------------------------------------------------
\* Properties of export.

RecordUuid(r) == IF r.record.kind = "Full" THEN r.record.uuid ELSE r.record.uuid[1]

\* The decl-id a record carries, if any.
RecordDecl(r) == IF r.record.kind = "Full" THEN r.record.decl_id ELSE Some(r.record.decl_id)

Kids(r) == {r.children[i] : i \in 1..Len(r.children)}

RECURSIVE Records(_)
Records(r) == {r} \cup UNION {Records(k) : k \in Kids(r)}

\* The node a record stands for.
NodeOfRecord(e, r) == e.nodes[NodeOfUuid(e, RecordUuid(r))[1]]

\* The records of r's children that stand for the child with this decl-id.
KidsFor(e, r, decl_id) == {k \in Kids(r) : NodeOfRecord(e, k).meta.decl_id = decl_id}

Exported == project' # project

MatchesDeclared(e, parent, child) ==
    /\ parent.node_type \in DOMAIN e.schema
    /\ is_declared_child(e.schema[parent.node_type], child.meta.decl_id, child.node_type)

MatchesPotential(e, parent, child) ==
    /\ parent.node_type \in DOMAIN e.schema
    /\ is_potential_slot(e.schema[parent.node_type], child.meta.decl_id, child.node_type)

SlotRule(e, parent, child, k) ==
    IF MatchesDeclared(e, parent, child) THEN k.record.kind = "Delta"
    ELSE IF MatchesPotential(e, parent, child)
    THEN k.record.kind = "Full" /\ k.record.decl_id = Some(child.meta.decl_id)
    ELSE k.record.kind = "Full" /\ k.record.decl_id = None

\* C26: in every exported tree, the record of a child that matches a declared
\* child of its parent's schema is a Delta record, whether or not it also
\* matches a potential slot; the record of a child that matches only a
\* potential slot is Full with its decl-id; the record of any other child is
\* Full without decl-id.
DeclaredChildExportedAsDelta ==
    [][Exported =>
          \A r \in Records(project'[1]) : \A k \in Kids(r) :
              SlotRule(Eng, NodeOfRecord(Eng, r), NodeOfRecord(Eng, k), k)]_vars

ValueOf(e, decl_id) == e.nodes[ParamNamed(e, decl_id)].data.value

HasOsc(e) == \E n \in DOMAIN e.nodes : e.nodes[n].node_type = "Osc"

\* The records, among those of the tree, of the node with this decl-id.
RecordsFor(e, root, decl_id) ==
    {r \in Records(root) : NodeOfRecord(e, r).meta.decl_id = decl_id}

\* C27: when the tree holding a node with folder connection (parameters host
\* and port) is exported after host was set to a non-default value and port
\* was not, the node's Full record contains a Delta record for connection,
\* which contains a Delta record for host with the new value and no meta, and
\* no record for port.
HostDeltaPortElided ==
    [][Exported /\ HasOsc(Eng) /\ ValueOf(Eng, <<"host">>) # IntVal(0)
                /\ ValueOf(Eng, <<"port">>) = IntVal(0) =>
          \E osc \in RecordsFor(Eng, project'[1], <<"osc">>) :
              /\ osc.record.kind = "Full"
              /\ \E connection \in KidsFor(Eng, osc, <<"connection">>) :
                    /\ connection.record.kind = "Delta"
                    /\ \E host \in KidsFor(Eng, connection, <<"host">>) :
                          /\ host.record.kind = "Delta"
                          /\ host.record.value = Some(ValueOf(Eng, <<"host">>))
                          /\ host.record.meta = None
                    /\ KidsFor(Eng, connection, <<"port">>) = {}]_vars

\* The uuids the Reference parameters of the exported records refer to.
ReferencedBy(root) ==
    {r.record.data.parameter[1].value.v :
        r \in {r \in Records(root) : /\ r.record.kind = "Full"
                                      /\ r.record.data.parameter # None
                                      /\ r.record.data.parameter[1].value.tag = "Reference"}}
    \cup {r.record.value[1].v :
            r \in {r \in Records(root) : /\ r.record.kind = "Delta"
                                          /\ r.record.value # None
                                          /\ r.record.value[1].tag = "Reference"}}

\* The uuid is that of a declared child of its parent which the walk left out.
NeedsStub(e, uuid) ==
    /\ NodeOfUuid(e, uuid) # None
    /\ uuid \notin EmittedIn(into_record(export_root_node(e, RootId)))
    /\ e.nodes[NodeOfUuid(e, uuid)[1]].parent # None
    /\ MatchesDeclared(e, e.nodes[e.nodes[NodeOfUuid(e, uuid)[1]].parent[1]],
                        e.nodes[NodeOfUuid(e, uuid)[1]])

Stub(e, uuid) ==
    [record |-> [kind |-> "Delta", decl_id |-> e.nodes[NodeOfUuid(e, uuid)[1]].meta.decl_id,
                 uuid |-> Some(uuid), meta |-> None, value |-> None],
     children |-> <<>>]

ParentUuid(e, uuid) == e.nodes[e.nodes[NodeOfUuid(e, uuid)[1]].parent[1]].meta.uuid

NoTwinDecls(r) ==
    \A i, j \in 1..Len(r.children) :
        i # j /\ RecordDecl(r.children[i]) # None
            => RecordDecl(r.children[i]) # RecordDecl(r.children[j])

\* C28: in every exported tree, each uuid that an exported Reference parameter
\* refers to, whose node is a declared child of its parent and was left out by
\* the walk, has a minimal Delta stub (decl-id and uuid only, no children)
\* under the record of that parent, whether or not the walk had kept a record
\* for the parent; and no record has two child records with one decl-id.
ReferencedNodesHaveStubs ==
    [][Exported =>
          /\ \A uuid \in ReferencedBy(project'[1]) :
                NeedsStub(Eng, uuid) =>
                    \E r \in Records(project'[1]) :
                        /\ RecordUuid(r) = ParentUuid(Eng, uuid)
                        /\ Stub(Eng, uuid) \in Kids(r)
          /\ \A r \in Records(project'[1]) : NoTwinDecls(r)]_vars

----------------------------------------------------------------------------
\* Properties of the external queue.

IsSuffix(s, t) == Len(s) <= Len(t) /\ SubSeq(t, Len(t) - Len(s) + 1, Len(t)) = s

\* tick() is applying the batch it took from the external queue.
ExternalRunning ==
    /\ Len(stack) >= 2
    /\ stack[1].fn = "tick"
    /\ stack[1].pc = "update"
    /\ stack[2].fn = "apply_edit_requests"

\* The next step applies an edit of the external batch.
ExternalNext == ExternalRunning /\ Len(stack) = 2 /\ stack[2].edits # <<>>

WithUpdateHook ==
    {n \in DOMAIN nodes : nodes[n].execution = "Continuous" /\ nodes[n].behaviour # None}

InitialDrainRunning ==
    \E k \in 1..Len(stack) :
        stack[k].fn = "process_pending" /\ stack[k].phase = "EngineTick"

EnqueueStep == pending_edits' # pending_edits /\ pending_edits' # <<>>

\* C29: tick() takes the whole external queue and applies its edits one by one
\* from the front, all of them before any update hook runs; the update pass is
\* complete before the initial reactive drain starts; the external queue is
\* empty during tick() and when it returns; and enqueue_edit only appends its
\* request to the queue: no node, value, inbox or event changes and no
\* behaviour runs.
ExternalEditsFirst ==
    /\ [](stack # <<>> => pending_edits = <<>>)
    /\ [](stack # <<>> /\ stack[1].pc = "update" => updated = {})
    /\ [](ExternalRunning => IsSuffix(stack[2].edits, stack[1].external))
    /\ [](InitialDrainRunning =>
            /\ updated = WithUpdateHook
            /\ \A k \in 1..Len(stack) : stack[k].fn # "run_update_pass")
    /\ [][/\ stack = <<>> /\ stack' # <<>> =>
                /\ stack'[1].external = pending_edits
                /\ pending_edits # <<>> => ExternalRunning' /\ stack'[2].edits = pending_edits
          /\ ExternalNext =>
                /\ stack'[2].edits = Tail(stack[2].edits)
                /\ nodes' = apply_edit(Eng, Head(stack[2].edits), MaxCreateDepth).nodes
                /\ param_values' =
                      apply_edit(Eng, Head(stack[2].edits), MaxCreateDepth).param_values
          /\ stack # <<>> /\ stack' # <<>> /\ stack[1].pc = "update"
                        /\ stack'[1].pc # "update" => Len(stack) = 1
          /\ stack # <<>> /\ stack' = <<>> => pending_edits' = <<>>
          /\ EnqueueStep =>
                /\ \E request \in menu : pending_edits' = Append(pending_edits, request)
                /\ UNCHANGED <<time, nodes, inboxes, subscriptions, event_log, param_values,
                               meta_values, stack, handed, updated, emitted>>]_vars

\* tick() applied a batch of two different edits, ran an update hook and is in
\* its initial reactive drain.
ExternalBatchApplied ==
    /\ InitialDrainRunning
    /\ Len(stack[1].external) = 2
    /\ stack[1].external[1].edit # stack[1].external[2].edit
    /\ updated # {}
    /\ pending_edits = <<>>

----------------------------------------------------------------------------
\* Properties of Immediate propagation.

ApplyNext == stack # <<>> /\ Top.fn = "apply_edit_requests" /\ Top.edits # <<>>

Visiting == stack # <<>> /\ Top.fn = "process_pending"

HandedBefore(n) == IF n \in DOMAIN handed THEN handed[n] ELSE <<>>

\* C30: applying an edit with Immediate propagation advances micro by one,
\* resets seq to 0 and starts exactly one drain pass over the nodes whose
\* inbox is non-empty at that point; the rest of the batch waits under that
\* pass; the pass visits each of those nodes, taking its inbox and handing
\* the events to its behaviour, and returns only when it has visited them
\* all.  Applying an edit with EndOfTick propagation goes straight on to the
\* rest of the batch: no pass starts and no behaviour runs.
ImmediateEditFlushes ==
    [][/\ ApplyNext /\ Head(Top.edits).propagation = "Immediate" =>
            /\ time' = EventTime(time.tick, time.micro + 1, 0)
            /\ Len(stack') = Len(stack) + 1
            /\ stack'[Len(stack)] = [Top EXCEPT !.edits = Tail(@)]
            /\ stack'[Len(stack')].fn = "process_pending"
            /\ stack'[Len(stack')].phase = "FlushImmediate"
            /\ stack'[Len(stack')].ready = {n \in DOMAIN inboxes' : inboxes'[n] # <<>>}
       /\ \A k \in 1..(Len(stack) - 1) : Len(stack') >= k => stack'[k] = stack[k]
       /\ Visiting /\ Len(stack') >= Len(stack)
                   /\ stack'[Len(stack)].ready # Top.ready =>
            \E n \in Top.ready :
                /\ stack'[Len(stack)].ready = Top.ready \ {n}
                /\ inboxes'[n] = <<>>
                /\ Behaves(n) => handed'[n] = HandedBefore(n) \o inboxes[n]
       /\ Visiting /\ Len(stack') < Len(stack) => Top.ready = {}
       /\ ApplyNext /\ Head(Top.edits).propagation = "EndOfTick" =>
            /\ stack' = ReplaceTop([Top EXCEPT !.edits = Tail(@)])
            /\ time'.micro = time.micro
            /\ handed' = handed
            /\ updated' = updated]_vars

\* The pass started by the Immediate first edit of a batch of two has visited
\* its nodes while the second edit still waits.
SecondEditWaits ==
    /\ Len(stack) = 3
    /\ Len(stack[1].external) = 2
    /\ stack[1].external[1].propagation = "Immediate"
    /\ stack[2].fn = "apply_edit_requests"
    /\ stack[2].edits = <<stack[1].external[2]>>
    /\ stack[3].fn = "process_pending"
    /\ stack[3].phase = "FlushImmediate"
    /\ stack[3].ready = {}
    /\ \E n \in DOMAIN handed : handed[n] # <<>>
    /\ time.micro >= 1

----------------------------------------------------------------------------
\* Properties of same-tick observation.

\* The nodes a ParamChanged event is for: the parameter, its parent and the
\* subscribers whose filter matches it.
Receivers(ev) ==
    {ev.kind.param}
        \cup {n \in DOMAIN nodes : nodes[ev.kind.param].parent = Some(n)}
        \cup {subscriptions[i].subscriber : i \in
                {i \in 1..Len(subscriptions) :
                    matches_filter(subscriptions[i].filter, ev, nodes)}}

TickDone == stack # <<>> /\ Top.fn = "tick" /\ Top.pc = "done"

\* C31: when tick N has done its last round, every ParamChanged event logged
\* in tick N has been handed in tick N to the process hook of each receiver
\* that has a behaviour, whether the edit came from an update hook or from a
\* process hook; the only exceptions are events emitted in round 8, which wait
\* in the receivers' inboxes.
SameTickHanded ==
    TickDone =>
        \A i \in 1..Len(event_log) :
            event_log[i].time.tick = time.tick /\ event_log[i].kind.type = "ParamChanged" =>
                \A n \in Receivers(event_log[i]) :
                    Behaves(n) =>
                        \/ InSeq(HandedTo(n), event_log[i])
                        \/ /\ event_log[i].time.micro = MAX_STABILIZATION_ROUNDS
                           /\ Top.round = MAX_STABILIZATION_ROUNDS
                           /\ InSeq(inboxes[n], event_log[i])

\* Tick 2 settled in one round: the change of p made by a's update hook was
\* handed to listener s in the initial drain, and the change of q that s made
\* in answer was handed to a in round 1.
RelayedWithinTick ==
    /\ TickDone
    /\ time.tick = 2
    /\ Top.round = 1
    /\ \E i \in 1..Len(HandedTo(4)) :
          /\ HandedTo(4)[i].time = EventTime(2, 0, 0)
          /\ HandedTo(4)[i].kind.type = "ParamChanged"
          /\ HandedTo(4)[i].kind.param = 2
    /\ \E i \in 1..Len(HandedTo(3)) :
          /\ HandedTo(3)[i].time.tick = 2
          /\ HandedTo(3)[i].kind.type = "ParamChanged"
          /\ HandedTo(3)[i].kind.param = 5

----------------------------------------------------------------------------
\* Properties of the update pass.

\* The nodes whose update hook the pass of frame f has to invoke: those stored
\* when it started that are Continuous and have a behaviour.
DueIn(f) ==
    {n \in DOMAIN f.started.meta_values :
        nodes[n].execution = "Continuous" /\ nodes[n].behaviour # None}

UpdateStep == updated' # updated /\ stack # <<>>

\* C32: during the update pass the nodes still to visit are in ascending
\* identifier order, and the nodes whose update hook has run in this tick are
\* exactly the due nodes already visited, so that at the end of the pass each
\* due node was invoked once and no Passive or Reactive node was; the hook of
\* a node runs only when the edits of the node before it have been applied
\* (the pass is on top of the stack), gets no event of the node's inbox, and
\* its edits are handed to apply_edit_requests in the same step.
UpdatePassInOrder ==
    /\ [](\A k \in 1..Len(stack) :
            stack[k].fn = "run_update_pass" =>
                /\ \A i, j \in 1..Len(stack[k].node_ids) :
                      i < j => stack[k].node_ids[i] < stack[k].node_ids[j]
                /\ updated = {n \in DueIn(stack[k]) : ~InSeq(stack[k].node_ids, n)}
                /\ Len(stack) > k => stack[k + 1].fn = "apply_edit_requests")
    /\ [](\A n \in updated : nodes[n].execution = "Continuous")
    /\ [][/\ updated' # updated /\ stack = <<>> => updated' = {}
          /\ UpdateStep =>
                /\ Top.fn = "run_update_pass"
                /\ Head(Top.node_ids) \notin updated
                /\ updated' = updated \cup {Head(Top.node_ids)}
                /\ inboxes' = inboxes
                /\ handed' = handed
                /\ stack'[Len(stack)] = [Top EXCEPT !.node_ids = Tail(@)]
                /\ nodes[Head(Top.node_ids)].behaviour[1].update # "None" =>
                      /\ Len(stack') = Len(stack) + 1
                      /\ stack'[Len(stack')].fn = "apply_edit_requests"
                      /\ \A i \in 1..Len(stack'[Len(stack')].edits) :
                            stack'[Len(stack')].edits[i].origin = "Internal"]_vars

\* Both a and s are Continuous: in tick 1 the update hook of a ran first and its
\* change of p was logged before the update hook of s changed q.
BothUpdatedInOrder ==
    /\ stack # <<>>
    /\ Top.fn = "run_update_pass"
    /\ Top.node_ids = <<5>>
    /\ updated = {3, 4}
    /\ time.tick = 1
    /\ \E i, j \in 1..Len(event_log) :
          /\ i < j
          /\ event_log[i].time.tick = 1
          /\ event_log[i].kind = ParamChanged(2, IntVal(1))
          /\ event_log[j].kind = ParamChanged(5, IntVal(1))

----------------------------------------------------------------------------
\* Properties of PatchMeta.

PatchNext ==
    /\ ApplyNext
    /\ Head(Top.edits).edit.type = "PatchMeta"
    /\ Head(Top.edits).edit.node \in DOMAIN nodes

\* The metadata after, given the metadata before and the patch.
Patched(before, after, patch) ==
    /\ \A field \in DOMAIN patch :
          after[field] = IF patch[field] # None THEN patch[field][1] ELSE before[field]
    /\ after.uuid = before.uuid
    /\ after.decl_id = before.decl_id
    /\ after.short_name = before.short_name

\* C33: applying PatchMeta{node, patch} to a stored node assigns the fields
\* present in the patch (a present description holding no value clears the
\* description), keeps the absent fields, uuid, decl-id and short-name, changes
\* nothing else of the node and no other node, and logs exactly one event,
\* MetaChanged{node, patch} with that patch.
PatchMetaAssignsPresentFields ==
    [][PatchNext =>
          /\ Patched(nodes[Head(Top.edits).edit.node].meta,
                     nodes'[Head(Top.edits).edit.node].meta, Head(Top.edits).edit.patch)
          /\ nodes' = [nodes EXCEPT ![Head(Top.edits).edit.node].meta =
                          nodes'[Head(Top.edits).edit.node].meta]
          /\ param_values' = param_values
          /\ emitted' = emitted + 1
          /\ event_log' = Append(event_log,
                                 [time |-> time,
                                  kind |-> MetaChanged(Head(Top.edits).edit.node,
                                                       Head(Top.edits).edit.patch)])]_vars

\* The description p was given has been cleared by a later patch that also
\* set its label and left its tags alone.
DescriptionCleared ==
    /\ nodes[2].meta.description = None
    /\ nodes[2].meta.label = <<"L">>
    /\ nodes[2].meta.tags = <<"o">>
    /\ \E i, j \in 1..Len(event_log) :
          /\ i < j
          /\ event_log[i].kind = MetaChanged(2, Described)
          /\ event_log[j].kind.type = "MetaChanged"
          /\ event_log[j].kind.node = 2
          /\ event_log[j].kind.patch.description = Some(None)

----------------------------------------------------------------------------
\* Properties of inboxes.

InboxOf(inb, n) == IF n \in DOMAIN inb THEN inb[n] ELSE <<>>

\* Node n has a behaviour and events waiting, and tick() will be called again.
Waiting(n) ==
    /\ Behaves(n)
    /\ InboxOf(inboxes, n) # <<>>
    /\ time.tick < MaxTick

\* C34: an inbox changes only by an event being pushed at its end or by the
\* whole inbox being taken; what is taken from a node with a behaviour is
\* handed to its process hook in the same step, after what was handed before
\* and in inbox order, and nothing else is ever handed; and as long as tick()
\* is called, a non-empty inbox of a node with a behaviour is taken.
EventsHandedOnce ==
    /\ [][\A n \in DOMAIN nodes :
            /\ InboxOf(inboxes', n) # InboxOf(inboxes, n) =>
                  \/ /\ IsPrefix(InboxOf(inboxes, n), InboxOf(inboxes', n))
                     /\ HandedTo(n)' = HandedTo(n) \/ handed' = EmptyMap
                  \/ /\ Visiting
                     /\ n \in Top.ready
                     /\ InboxOf(inboxes', n) = <<>>
                     /\ Behaves(n) => HandedTo(n)' = HandedTo(n) \o InboxOf(inboxes, n)
            /\ HandedTo(n)' # HandedTo(n) =>
                  \/ stack = <<>> /\ handed' = EmptyMap
                  \/ /\ Behaves(n)
                     /\ InboxOf(inboxes', n) = <<>>
                     /\ HandedTo(n)' = HandedTo(n) \o InboxOf(inboxes, n)]_vars
    /\ \A n \in 1..MaxNodes : Waiting(n) ~> (InboxOf(inboxes, n) = <<>>)

\* Events left over by the eight rounds of tick 1 were handed at the start of
\* tick 2, before the events of tick 2.
CarriedEventsHandedFirst ==
    /\ time.tick = 2
    /\ \E n \in DOMAIN carried :
          /\ Behaves(n)
          /\ carried[n] # <<>>
          /\ Len(HandedTo(n)) > Len(carried[n])
          /\ IsPrefix(carried[n], HandedTo(n))

-----------------------------------------------------------------------------
\* Properties of the subscription task.

\* The events logged after the time the task subscribed from, in emission order.
Logged == events_since(event_log, poller.from)

PollStep == poller'.polls = poller.polls + 1

\* C35: a subscription task that polls events_since(last_time) and moves
\* last_time to the last returned event's time has sent, after every poll,
\* exactly the events logged after its starting time, each once and in emission
\* order, however its polls interleave with the ticks.
PollerSendsLoggedOnce ==
    /\ [](IsPrefix(poller.sent, Logged))
    /\ [][PollStep => poller'.sent = Logged']_vars

-----------------------------------------------------------------------------
\* Properties of a type registered twice.

RegisteredSchema(child) ==
    nodes[nodes[child].parent[1]].data.registrations[nodes[child].node_type].schema

FolderPrefixes(sch) ==
    UNION {{SubSeq(decl_id, 1, k) : k \in 1..Len(decl_id)} : decl_id \in DeclIds(sch.folders)}

\* C36: beneath every child a manager instantiated there is exactly one
\* Parameter node per parameter decl-id and exactly one Folder node per folder
\* prefix of the schema the manager registers for the child's type, also when
\* the engine's registry holds a schema for that type.
ManagedSchemaOnce ==
    \A child \in {n \in DOMAIN nodes : HasRegistration(n)} :
        /\ \A decl_id \in DeclIds(RegisteredSchema(child).params) :
              Cardinality(OwnOfType(child, "Parameter", decl_id)) = 1
        /\ \A prefix \in FolderPrefixes(RegisteredSchema(child)) :
              Cardinality(OwnOfType(child, "Folder", prefix)) = 1

-----------------------------------------------------------------------------
\* Properties of delivery without subscriptions.

InboxLen(inb, n) == IF n \in DOMAIN inb THEN Len(inb[n]) ELSE 0

\* C37: with no subscription registered, an operation that emits one event
\* pushes at most one event into any one node's inbox: the delivery to the
\* event's own targets and the bubbled delivery never both reach one node, for
\* ChildAdded emitted by add_child as for every other kind.
OneEventOnePush ==
    [][(subscriptions = <<>> /\ emitted' = emitted + 1)
          => \A n \in DOMAIN inboxes' : InboxLen(inboxes', n) <= InboxLen(inboxes, n) + 1]_vars

-----------------------------------------------------------------------------
\* Properties of Trigger parameters.

\* The next step applies SetParam{p, Trigger} to a Trigger-valued parameter.
TriggerNext(p) ==
    /\ ApplyNext
    /\ Head(Top.edits).edit = [type |-> "SetParam", node |-> p, value |-> TriggerVal]
    /\ p \in DOMAIN nodes
    /\ nodes[p].data.kind = "Parameter"
    /\ nodes[p].data.value = TriggerVal
    /\ nodes[p].data.change = "ValueChange"

\* C38: every applied SetParam{p, Trigger} on a Trigger-valued parameter with
\* change policy ValueChange emits one ParamChanged{param = p}: the event is
\* logged and pushed into p's inbox and its parent's.
TriggerAlwaysNotifies ==
    [][\A p \in DOMAIN nodes :
          TriggerNext(p) =>
              /\ Len(event_log') > Len(event_log)
              /\ event_log'[Len(event_log) + 1].kind = ParamChanged(p, TriggerVal)]_vars

-----------------------------------------------------------------------------
\* Properties of recursive creation.

\* C39: every create_node call returns after creating finitely many nodes,
\* whatever schemas are registered: the create_node calls nested through
\* declared children never go deeper than MaxCreateDepth, one level for the
\* node and one for each type below it, also when a schema declares, directly
\* or through another type, a child of its own type.
CreateNodeReturns == ~overflow

-----------------------------------------------------------------------------
\* Properties of the read views.

Parameters == {n \in DOMAIN nodes : nodes[n].data.kind = "Parameter"}

\* The context process_pending and run_update_pass build for a behaviour now.
CtxNow == [param_values |-> param_values, meta_values |-> meta_values]

\* C40: between any two steps of the engine the read views mirror the node
\* store: param_values holds exactly the Parameter nodes, each with its current
\* value, meta_values holds every node with its current metadata, so read_param
\* on a context built now returns the store's value.
ViewsMirrorStore ==
    /\ DOMAIN param_values = Parameters
    /\ DOMAIN meta_values = DOMAIN nodes
    /\ \A n \in Parameters : param_values[n] = nodes[n].data.value
    /\ \A n \in DOMAIN nodes : meta_values[n] = nodes[n].meta
    /\ \A n \in DOMAIN nodes :
          read_param(CtxNow, n) = IF n \in Parameters THEN Some(nodes[n].data.value) ELSE None

\* The ticks have changed a parameter's value and patched a node's label, and
\* both views show it.
ViewsAfterEdits ==
    /\ stack = <<>>
    /\ \E n \in Parameters :
          /\ nodes[n].data.default # Some(nodes[n].data.value)
          /\ read_param(CtxNow, n) = Some(nodes[n].data.value)
    /\ \E n \in DOMAIN nodes :
          /\ nodes[n].meta.label = <<"Level">>
          /\ meta_values[n].label = <<"Level">>

====
